---------------------------- MODULE Spec2Model ----------------------------
(***************************************************************************)
(* Discord-Relay: the webhook dispatcher (relay.js), its destination       *)
(* registry (getCurrentWebhooks over config.env), the signer, the saving   *)
(* and reloading of the configuration (webui.js, config.js), the trigger   *)
(* filter (filters.js) and the message handler (index.js).                 *)
(*                                                                         *)
(* A dispatch is one call of sendToN8n(payload).  JavaScript runs every    *)
(* continuation to its next await, so a dispatch is observed only at its   *)
(* await points: waiting for the configuration read, for the response of   *)
(* axios.post, for the backoff timer, and for the resumption of sendToN8n  *)
(* after sendToWebhook returned.  Each action below is one continuation.   *)
(*                                                                         *)
(* Text values (URLs, secrets) are sequences of tokens; the token " " is   *)
(* white space.  null and '' are both the empty sequence: the code only    *)
(* ever tests them for truthiness.                                         *)
(***************************************************************************)
EXTENDS Integers, Sequences, FiniteSets, TLC

\* ------------------------------------------------------------- bounds
\* Number of inbound events (calls of sendToN8n) of one behaviour.
MaxEvents == 2
\* Largest number of entries of the N8N_WEBHOOKS map of a configuration.
MaxHooks == 2
\* Number of configuration saves of one behaviour.
MaxSaves == 1
\* Largest number of pieces a message content is made of.
MaxPieces == 3

Events == 1..MaxEvents

\* ------------------------------------------------- program constants
maxRetries == 3
baseDelay == 1000

Null == << >>
Placeholder == <<"your_n8n_webhook_url_here">>
NoStatus == -1

\* ---------------------------------------------------------------- text
Truthy(s) == s # << >>

RECURSIVE TrimStart(_)
TrimStart(s) == IF s # << >> /\ Head(s) = " " THEN TrimStart(Tail(s)) ELSE s

RECURSIVE TrimEnd(_)
TrimEnd(s) ==
  IF s # << >> /\ s[Len(s)] = " " THEN TrimEnd(SubSeq(s, 1, Len(s) - 1)) ELSE s

\* String.prototype.trim
Trim(s) == TrimEnd(TrimStart(s))

RECURSIVE Pow2(_)
Pow2(n) == IF n = 0 THEN 1 ELSE 2 * Pow2(n - 1)

\* ------------------------------------------------------ configuration
\* envConfig: what parseEnv gives for the content of config.env.  A key
\* with no line and a key with an empty value are both << >>.
\* N8N_WEBHOOKS is JSON text: "absent" (no or empty value), "invalid"
\* (JSON.parse throws) or "object" with its entries in Object.entries order;
\* an entry's value is a string (str TRUE) or some other JSON value.
NoHooks == [json |-> "absent", entries |-> << >>]
BadHooks == [json |-> "invalid", entries |-> << >>]
Hooks(es) == [json |-> "object", entries |-> es]
Str(s) == [str |-> TRUE, text |-> s]

EmptyEnv ==
  [N8N_WEBHOOK_URL |-> << >>, N8N_WEBHOOKS |-> NoHooks, RELAY_SHARED_SECRET |-> << >>,
   BOT_PREFIX |-> << >>, ALLOWED_GUILD_IDS |-> << >>, ALLOW_DMS |-> << >>,
   ALLOW_EVERYONE_MENTIONS |-> << >>]

\* The configurations explored: a primary URL that is absent, the
\* placeholder, or a URL written with surrounding blanks; a map of at most
\* MaxHooks entries with distinct names; a secret that is absent or set.
PrimaryValues == {<< >>, Placeholder, <<" ", "http://p", " ">>}
SecretValues == {<< >>, <<"s3cret">>}
HookNames == {"alpha", "beta", "stale"}

HookValue(name) ==
  CASE name = "alpha" -> Str(<<"http://a">>)
    [] name = "beta" -> Str(<<" ", "http://b", " ">>)
    [] OTHER -> Str(Placeholder)

\* The sequences of at most n entries with pairwise distinct names.
RECURSIVE EntrySeqs(_)
EntrySeqs(n) ==
  IF n = 0 THEN {<< >>}
  ELSE LET shorter == EntrySeqs(n - 1)
       IN shorter \cup
          {Append(q, [name |-> x, url |-> HookValue(x)]) :
             <<q, x>> \in {qx \in shorter \X HookNames :
                             /\ Len(qx[1]) = n - 1
                             /\ \A i \in 1..Len(qx[1]) : qx[1][i].name # qx[2]}}

HooksValues == {NoHooks, BadHooks} \cup {Hooks(es) : es \in EntrySeqs(MaxHooks) \ {<< >>}}

\* The BOT_* keys are left unset here: the dispatcher does not read them.
CfgFiles ==
  [N8N_WEBHOOK_URL : PrimaryValues, N8N_WEBHOOKS : HooksValues,
   RELAY_SHARED_SECRET : SecretValues,
   BOT_PREFIX : {<< >>}, ALLOWED_GUILD_IDS : {<< >>}, ALLOW_DMS : {<< >>},
   ALLOW_EVERYONE_MENTIONS : {<< >>}]

\* getCurrentWebhooks, the primary URL (part_004:16-24)
defaultWebhookOf(envConfig) ==
  LET rawUrl == envConfig.N8N_WEBHOOK_URL
      trimmedUrl == Trim(rawUrl)
  IN IF Truthy(rawUrl) /\ trimmedUrl # << >> /\ trimmedUrl # Placeholder
     THEN trimmedUrl ELSE Null

\* Mutant: the named entries are kept without the placeholder test.
RECURSIVE FilterEntries_placeholder(_)
FilterEntries_placeholder(es) ==
  IF es = << >> THEN << >>
  ELSE LET en == Head(es)
           trimmedUrl == Trim(en.url.text)
           keep == en.url.str /\ Truthy(en.url.text) /\ trimmedUrl # << >>
       IN (IF keep THEN <<[name |-> en.name, url |-> trimmedUrl]>> ELSE << >>)
          \o FilterEntries_placeholder(Tail(es))

\* getCurrentWebhooks, the named map (part_004:26-42): the entries kept, in
\* the order of Object.entries, each with its URL trimmed.
RECURSIVE FilterEntries(_)
FilterEntries(es) ==
  IF es = << >> THEN << >>
  ELSE LET en == Head(es)
           trimmedUrl == Trim(en.url.text)
           keep == /\ en.url.str /\ Truthy(en.url.text)
                   /\ trimmedUrl # << >> /\ trimmedUrl # Placeholder
       IN (IF keep THEN <<[name |-> en.name, url |-> trimmedUrl]>> ELSE << >>)
          \o FilterEntries(Tail(es))

webhooksOf(envConfig) ==
  IF envConfig.N8N_WEBHOOKS.json = "object"
  THEN FilterEntries(envConfig.N8N_WEBHOOKS.entries)
  ELSE << >>

\* getCurrentWebhooks (part_004:10-57) on the parsed file content.
getCurrentWebhooks(envConfig) ==
  [defaultWebhook |-> defaultWebhookOf(envConfig),
   webhooks |-> webhooksOf(envConfig),
   sharedSecret |-> IF Truthy(envConfig.RELAY_SHARED_SECRET)
                    THEN envConfig.RELAY_SHARED_SECRET ELSE Null]

\* Mutant: the map is served before the primary URL.
Targets_defaultLast(cfg) ==
  cfg.webhooks \o
  (IF Truthy(cfg.defaultWebhook)
   THEN <<[name |-> "default", url |-> cfg.defaultWebhook]>> ELSE << >>)

\* Mutant: the primary URL is served without the test that it is set.
Targets_noGuard(cfg) ==
  <<[name |-> "default", url |-> cfg.defaultWebhook]>> \o cfg.webhooks

\* The destinations sendToN8n serves, in the order it serves them: 'default'
\* when a primary URL is resolved, then the entries of the map.
Targets(cfg) ==
  (IF Truthy(cfg.defaultWebhook)
   THEN <<[name |-> "default", url |-> cfg.defaultWebhook]>> ELSE << >>)
  \o cfg.webhooks

\* ------------------------------------------- the configuration object
\* config.js:194, the prefix used when BOT_PREFIX is unset.  Prefixes and
\* message contents are sequences of characters.
DefaultPrefix == <<"!", "b", "o", "t">>

\* String.prototype.split(','): the pieces between the commas.
RECURSIVE SplitComma(_)
SplitComma(s) ==
  IF \A i \in 1..Len(s) : s[i] # "," THEN <<s>>
  ELSE LET i == CHOOSE j \in 1..Len(s) :
                  s[j] = "," /\ \A k \in 1..(j - 1) : s[k] # ","
       IN <<SubSeq(s, 1, i - 1)>> \o SplitComma(SubSeq(s, i + 1, Len(s)))

\* config.js:195-197: ALLOWED_GUILD_IDS split at commas, each id trimmed,
\* empty ids dropped; null when the key is unset.
allowedGuildIdsOf(text) ==
  IF Truthy(text)
  THEN LET ids == SplitComma(text)
       IN SelectSeq([i \in 1..Len(ids) |-> Trim(ids[i])], Truthy)
  ELSE Null

\* parseWebhooks (config.js:125-149): the entries that are non-empty strings
\* other than the placeholder, trimmed; {} for absent or invalid JSON.
parseWebhooks(webhooksJson) ==
  IF webhooksJson.json = "object" THEN FilterEntries(webhooksJson.entries) ELSE << >>

\* config.n8n.webhookUrl (config.js:176-184)
webhookUrlOf(rawUrl) ==
  IF ~Truthy(rawUrl) THEN Null
  ELSE LET trimmedUrl == Trim(rawUrl)
       IN IF trimmedUrl = << >> \/ trimmedUrl = Placeholder THEN Null ELSE trimmedUrl

\* Mutant: the allowance is read from a key of the environment.
allowEveryoneMentionsOf_key(env) == env.ALLOW_EVERYONE_MENTIONS \in {<<"true">>, <<"1">>}

\* config.bot.allowEveryoneMentions as filters.js:40 reads it: config.js
\* gives the bot object the fields prefix, allowedGuildIds and allowDMs only
\* (config.js:193-200), whatever keys the environment holds, so the read
\* gives undefined.
allowEveryoneMentionsOf(env) == FALSE

\* The config object (config.js:166-204; reloadConfig returns one built the
\* same way, config.js:238-264) for the environment env.
loadConfig(env) ==
  [n8n |-> [webhookUrl |-> webhookUrlOf(env.N8N_WEBHOOK_URL),
            webhooks |-> parseWebhooks(env.N8N_WEBHOOKS)],
   relay |-> [sharedSecret |-> IF Truthy(env.RELAY_SHARED_SECRET)
                               THEN env.RELAY_SHARED_SECRET ELSE Null],
   bot |-> [prefix |-> IF Truthy(env.BOT_PREFIX) THEN env.BOT_PREFIX ELSE DefaultPrefix,
            allowedGuildIds |-> allowedGuildIdsOf(env.ALLOWED_GUILD_IDS),
            allowDMs |-> env.ALLOW_DMS \in {<<"true">>, <<"1">>},
            allowEveryoneMentions |-> allowEveryoneMentionsOf(env)]]

\* ---------------------------------------------------------------- HTTP
\* What one POST can end in: a response with a status, or a failure below
\* HTTP (connection refused, DNS lookup failure, the operating system's
\* connect timeout, the request exceeding the timeout given to axios).
Statuses == {200, 302, 404, 500}
Failures == {"refused", "dns", "connect-timeout", "request-timeout"}
Outcomes ==
  [kind : {"response"}, status : Statuses, failure : {""}]
    \cup [kind : {"failure"}, status : {NoStatus}, failure : Failures]

\* validateStatus of the axios.post call (part_004:110)
validateStatus(status) == status < 500

\* error.code of the error axios.post rejects with.  A response refused by
\* validateStatus is ERR_BAD_RESPONSE; a request exceeding the `timeout`
\* option is ECONNABORTED (axios names it ETIMEDOUT only under
\* transitional.clarifyTimeoutError, which the call does not set).
errorCode(o) ==
  CASE o.kind = "response" -> "ERR_BAD_RESPONSE"
    [] o.failure = "refused" -> "ECONNREFUSED"
    [] o.failure = "dns" -> "ENOTFOUND"
    [] o.failure = "connect-timeout" -> "ETIMEDOUT"
    [] OTHER -> "ECONNABORTED"

\* await axios.post(webhookUrl, payload, {headers, timeout, validateStatus})
\* (part_004:107-111): the response it resolves with, or the error it throws
\* (code, and response.status when there was a response).
axiosPost(o) ==
  IF o.kind = "response" /\ validateStatus(o.status)
  THEN [threw |-> FALSE, status |-> o.status, code |-> ""]
  ELSE [threw |-> TRUE, status |-> o.status, code |-> errorCode(o)]

\* Mutant: every status below 500 counts as success.
isSuccess_wide(status) == status >= 200 /\ status < 500

\* Mutant: 200 itself is not taken for a success.
isSuccess_strict(status) == status > 200 /\ status < 300

\* response.status >= 200 && response.status < 300 (part_004:113)
isSuccess(status) == status >= 200 /\ status < 300

\* Mutant: the last attempt is taken to be the third.
isLastAttempt_early(attempt) == attempt = maxRetries - 1

\* part_004:133
isLastAttempt(attempt) == attempt = maxRetries

\* Mutant: every error raised is taken for a network error.
isNetworkError_any(error) == TRUE

\* part_004:134-138; error.response?.status is undefined without a response
isNetworkError(error) ==
  \/ error.code = "ECONNREFUSED"
  \/ error.code = "ETIMEDOUT"
  \/ error.code = "ENOTFOUND"
  \/ (error.status # NoStatus /\ error.status >= 500)

\* Mutant: the delay grows linearly.
backoffDelay_linear(attempt) == baseDelay * (attempt + 1)

\* part_004:156
backoffDelay(attempt) == baseDelay * Pow2(attempt)

\* Mutant: the loop does not count its attempts.
nextAttempt_stuck(attempt) == attempt

\* attempt++ of the for loop (part_004:99)
nextAttempt(attempt) == attempt + 1

\* -------------------------------------------------------------- signer
\* JSON.stringify(payload): the serialized body.
stringify(payload) == <<"json", payload>>

\* generateSignature (part_004:65-70): the HMAC-SHA256 of the serialized
\* payload under the secret, as a term (equal digests for equal inputs only).
generateSignature(payload, secret) == <<"hmac-sha256", secret, stringify(payload)>>

\* Mutant: the signature is attached whether or not a secret is set.
buildHeaders_unconditional(payload, sharedSecret, now) ==
  [ContentType |-> "application/json",
   XRelayTimestamp |-> now,
   XRelaySignature |-> generateSignature(payload, sharedSecret)]

\* The headers sendToWebhook builds on entry (part_004:81-93).  now is the
\* time of the call; a header that is not set is Null.
buildHeaders(payload, sharedSecret, now) ==
  [ContentType |-> "application/json",
   XRelayTimestamp |-> now,
   XRelaySignature |-> IF Truthy(sharedSecret)
                       THEN generateSignature(payload, sharedSecret) ELSE Null]

\* --------------------------------------------------------------- state
VARIABLES
  cfgFile,   \* config.env as parseEnv reads it (an element of CfgFiles)
  fileOk,    \* whether fs.promises.readFile of config.env succeeds
  inbox,     \* the events the gateway has not delivered yet
  d,         \* per event: the locals of its sendToN8n / sendToWebhook call
  inflight,  \* the HTTP requests sent and not yet answered
  processEnv,\* process.env, the keys dotenv loaded from config.env
  config,    \* the object config.js builds once, at module load
  saves,     \* history: the configuration saves completed so far
  epoch,     \* history, per event: the value of saves when its handler ran
  message,   \* the inbound Discord message of the behaviour
  verdict,   \* what isBotCalled and isGuildAllowed returned for message
  writing    \* what fs.writeFile has yet to write to config.env, if it is open

vars == <<cfgFile, fileOk, inbox, d, inflight, processEnv, config, saves, epoch,
          message, verdict, writing>>

Payloads == {"payloadA", "payloadB"}

NoCfg == [defaultWebhook |-> Null, webhooks |-> << >>, sharedSecret |-> Null]
NoHeaders == [ContentType |-> "", XRelayTimestamp |-> 0, XRelaySignature |-> Null]
NoRet == [success |-> FALSE, status |-> NoStatus, error |-> ""]
NoOutcome == [kind |-> "none", status |-> NoStatus, failure |-> ""]

\* No write of config.env is under way; a content yet to be written is
\* <<content>>.
NoWrite == << >>
\* epoch of an event whose handler has not run.
NotRun == -1
\* A message is its content, author.bot, the id of its guild (<< >> for a
\* direct message), what discord.js parsed into message.mentions, and the
\* ids of its attachments and embeds in the order received.
NoMessage ==
  [content |-> << >>, authorBot |-> FALSE, guild |-> Null,
   mentionsUser |-> FALSE, mentionsEveryone |-> FALSE,
   attachments |-> << >>, embeds |-> << >>]
NoVerdict ==
  [applied |-> FALSE, called |-> FALSE, rule |-> Null, cleanContent |-> << >>,
   allowed |-> FALSE, at |-> 0]

\* pc: idle (sendToN8n not called), reading (awaiting readConfigFile),
\* inflight (awaiting axios.post), backoff (awaiting setTimeout), returned
\* (sendToWebhook returned, sendToN8n not yet resumed), done (results returned).
\* clock: milliseconds since the running sendToWebhook call was entered.
\* nreq, only5xx, last: history of that call (requests sent, whether every
\* answer so far had a status >= 500, the latest answer).
IdleDispatch ==
  [pc |-> "idle", payload |-> "", cfg |-> NoCfg, results |-> << >>, idx |-> 0,
   attempt |-> 0, headers |-> NoHeaders, delay |-> 0, ret |-> NoRet,
   clock |-> 0, nreq |-> 0, only5xx |-> TRUE, last |-> NoOutcome]

\* Mutant: the registry takes the keys from process.env, as loaded at start.
readEnv_cached == processEnv

\* readConfigFile then parseEnv (config.js:275-310): a failed read is caught
\* and gives '', which parses to no keys.
readEnv == IF fileOk THEN cfgFile ELSE EmptyEnv

\* Mutant: the calls for all remaining targets are started together.
Serve_all(r, i) == i..Len(Targets(r.cfg))

\* The targets whose sendToWebhook call is running once sendToN8n has reached
\* target i: each call is awaited before the next (part_004:194, 204).
Serve(r, i) == {i}

\* Mutant: each attempt takes its URL and its signature from config.env as
\* it is when the attempt is sent.
Request_live(e, r, i) ==
  LET now == getCurrentWebhooks(readEnv)
  IN [ev |-> e, idx |-> i, webhook |-> Targets(r.cfg)[i].name,
      url |-> IF i <= Len(Targets(now)) THEN Targets(now)[i].url
              ELSE Targets(r.cfg)[i].url,
      body |-> r.payload,
      headers |-> buildHeaders(r.payload, now.sharedSecret, r.headers.XRelayTimestamp),
      attempt |-> r.attempt, sentAt |-> r.clock]

\* The request sendToWebhook sends for target i at the current attempt.
Request(e, r, i) ==
  [ev |-> e, idx |-> i, webhook |-> Targets(r.cfg)[i].name,
   url |-> Targets(r.cfg)[i].url, body |-> r.payload, headers |-> r.headers,
   attempt |-> r.attempt, sentAt |-> r.clock]

\* sendToWebhook entered for target i (part_004:80-99): headers built, first
\* attempt sent.
Enter(r, i) ==
  [r EXCEPT !.pc = "inflight", !.idx = i, !.attempt = 0,
            !.headers = buildHeaders(r.payload, r.cfg.sharedSecret, 0),
            !.delay = 0, !.ret = NoRet, !.clock = 0, !.nreq = 1,
            !.only5xx = TRUE, !.last = NoOutcome]

Init ==
  /\ cfgFile \in CfgFiles
  /\ fileOk \in BOOLEAN
  /\ inbox = {1}
  /\ d = [e \in Events |-> IdleDispatch]
  /\ inflight = {}
  /\ processEnv = cfgFile
  /\ config = loadConfig(cfgFile)
  /\ saves = 0
  /\ epoch = [e \in Events |-> NotRun]
  /\ message = NoMessage
  /\ verdict = NoVerdict
  /\ writing = NoWrite

\* The handler calls sendToN8n(payload) (index.js:228); sendToN8n awaits
\* getCurrentWebhooks, which awaits readConfigFile (part_004:184, 13).
StartDispatch(e) ==
  /\ e \in inbox
  /\ d[e].pc = "idle"
  /\ \E p \in Payloads :
       d' = [d EXCEPT ![e] = [@ EXCEPT !.pc = "reading", !.payload = p]]
  /\ inbox' = inbox \ {e}
  /\ epoch' = [epoch EXCEPT ![e] = saves]
  /\ UNCHANGED <<cfgFile, fileOk, inflight, processEnv, config, writing, saves, message, verdict>>

\* Mutant: the wait between attempts holds the thread, so that no other
\* dispatch resolves its destinations while one is waiting.
Resolve_blocked(e) ==
  /\ d[e].pc = "reading"
  /\ \A e2 \in Events : d[e2].pc # "backoff"
  /\ LET r == [d[e] EXCEPT !.cfg = getCurrentWebhooks(readEnv)]
     IN IF Targets(r.cfg) = << >>
        THEN /\ d' = [d EXCEPT ![e] = [r EXCEPT !.pc = "done"]]
             /\ UNCHANGED inflight
        ELSE /\ d' = [d EXCEPT ![e] = Enter(r, 1)]
             /\ inflight' = inflight \cup {Request(e, Enter(r, 1), i) : i \in Serve(r, 1)}
  /\ UNCHANGED <<cfgFile, fileOk, inbox, processEnv, config, writing, saves, epoch,
                 message, verdict>>

\* The read completes: the destination set and secret are resolved and
\* sendToN8n goes to its first target, or returns [] when there is none
\* (part_004:184-212).
Resolve(e) ==
  /\ d[e].pc = "reading"
  /\ LET r == [d[e] EXCEPT !.cfg = getCurrentWebhooks(readEnv)]
     IN IF Targets(r.cfg) = << >>
        THEN /\ d' = [d EXCEPT ![e] = [r EXCEPT !.pc = "done"]]
             /\ UNCHANGED inflight
        ELSE /\ d' = [d EXCEPT ![e] = Enter(r, 1)]
             /\ inflight' = inflight \cup {Request(e, Enter(r, 1), i) : i \in Serve(r, 1)}
  /\ UNCHANGED <<cfgFile, fileOk, inbox, processEnv, config, writing, saves, epoch,
                 message, verdict>>

\* What the try/catch of sendToWebhook makes of one answer (part_004:107-166),
\* given as the dispatch record after it: a returned result, or a backoff.
Handle(r, o) ==
  LET res == axiosPost(o)
      h == [r EXCEPT !.last = o,
                     !.only5xx = r.only5xx /\ o.kind = "response" /\ o.status >= 500]
  IN IF ~res.threw
     THEN IF isSuccess(res.status)
          THEN [h EXCEPT !.pc = "returned",
                         !.ret = [success |-> TRUE, status |-> res.status, error |-> ""]]
          ELSE [h EXCEPT !.pc = "returned",
                         !.ret = [success |-> FALSE, status |-> res.status, error |-> "HTTP"]]
     ELSE IF isLastAttempt(r.attempt) \/ ~isNetworkError(res)
          THEN [h EXCEPT !.pc = "returned",
                         !.ret = [success |-> FALSE, status |-> res.status,
                                  error |-> res.code]]
          ELSE [h EXCEPT !.pc = "backoff", !.delay = backoffDelay(r.attempt)]

\* axios.post settles with outcome o.
Respond(e) ==
  /\ d[e].pc = "inflight"
  /\ \E q \in inflight, o \in Outcomes :
       /\ q.ev = e /\ q.idx = d[e].idx
       /\ d' = [d EXCEPT ![e] = Handle(d[e], o)]
       /\ inflight' = inflight \ {q}
  /\ UNCHANGED <<cfgFile, fileOk, inbox, processEnv, config, writing, saves, epoch,
                 message, verdict>>

\* The backoff timer fires: the loop goes to its next attempt, or falls out
\* of the for (part_004:99, 165-172).
TimerFires(e) ==
  /\ d[e].pc = "backoff"
  /\ LET r == [d[e] EXCEPT !.attempt = nextAttempt(@), !.clock = @ + d[e].delay, !.delay = 0]
     IN IF r.attempt <= maxRetries
        THEN LET s == [r EXCEPT !.pc = "inflight", !.nreq = @ + 1]
             IN /\ d' = [d EXCEPT ![e] = s]
                /\ inflight' = inflight \cup {Request(e, s, s.idx)}
        ELSE /\ d' = [d EXCEPT ![e] =
                        [r EXCEPT !.pc = "returned",
                                  !.ret = [success |-> FALSE, status |-> NoStatus,
                                           error |-> "Max retries exceeded"]]]
             /\ UNCHANGED inflight
  /\ UNCHANGED <<cfgFile, fileOk, inbox, processEnv, config, writing, saves, epoch,
                 message, verdict>>

\* sendToN8n resumes with the result of sendToWebhook: it pushes the result
\* and goes to its next target, or returns results (part_004:194-212).
Collect(e) ==
  /\ d[e].pc = "returned"
  /\ LET t == Targets(d[e].cfg)[d[e].idx]
         r == [d[e] EXCEPT !.results =
                 Append(@, [webhook |-> t.name, url |-> t.url,
                            success |-> d[e].ret.success, status |-> d[e].ret.status,
                            error |-> d[e].ret.error])]
     IN IF r.idx < Len(Targets(r.cfg))
        THEN /\ d' = [d EXCEPT ![e] = Enter(r, r.idx + 1)]
             /\ inflight' = inflight \cup
                  {Request(e, Enter(r, r.idx + 1), i) : i \in Serve(r, r.idx + 1)}
        ELSE /\ d' = [d EXCEPT ![e] = [r EXCEPT !.pc = "done"]]
             /\ UNCHANGED inflight
  /\ UNCHANGED <<cfgFile, fileOk, inbox, processEnv, config, writing, saves, epoch,
                 message, verdict>>

Next ==
  \E e \in Events :
    \/ StartDispatch(e)
    \/ Resolve(e)
    \/ Respond(e)
    \/ TimerFires(e)
    \/ Collect(e)

Spec == Init /\ [][Next]_vars

\* Every continuation that is ready runs, every request is answered and
\* every timer fires: the event loop starves nothing.
Fairness ==
  \A e \in Events :
    /\ WF_vars(Resolve(e))
    /\ WF_vars(Respond(e))
    /\ WF_vars(TimerFires(e))
    /\ WF_vars(Collect(e))

LiveSpec == Init /\ [][Next]_vars /\ Fairness

\* ------------------------------------------- saving the configuration
\* The values of config.env a save can leave behind and a start can have
\* loaded: nothing set; a primary URL only; a named destination with a
\* secret, a prefix and a guild allow-list.
PrimaryOnly == [EmptyEnv EXCEPT !.N8N_WEBHOOK_URL = <<" ", "http://p", " ">>]
NamedSigned ==
  [EmptyEnv EXCEPT !.N8N_WEBHOOKS = Hooks(<<[name |-> "alpha", url |-> HookValue("alpha")]>>),
                   !.RELAY_SHARED_SECRET = <<"s3cret">>,
                   !.BOT_PREFIX = <<"?">>,
                   !.ALLOWED_GUILD_IDS = <<"g1", ",", " ", "g2">>]
SaveFiles == {EmptyEnv, PrimaryOnly, NamedSigned}

\* Whether a posted value is defined and not '' (webui.js:591).
IsSet(key, value) ==
  IF key = "N8N_WEBHOOKS" THEN value.json # "absent" ELSE Truthy(value)

\* The line `KEY=value` as parseEnv reads it back (config.js:294-306): the
\* line is trimmed and white space after the = is skipped.
writtenValue(key, value) == IF key = "N8N_WEBHOOKS" THEN value ELSE Trim(value)

\* stringifyConfig (webui.js:581-608) applied to {...existingConfig,
\* ...newConfig} (webui.js:660) with the file as template: a key whose new
\* value is set gets it, any other line is kept.  config.env has a line for
\* every key (it starts as a copy of config.env.example, config.js:15-18).
stringifyConfig(newConfig, template) ==
  [key \in DOMAIN template |->
     IF IsSet(key, newConfig[key]) THEN writtenValue(key, newConfig[key])
     ELSE template[key]]

\* POST /api/config (webui.js:634-674): the file is read as template (a
\* missing file ends the request with 500), merged and written back.
SaveConfig(newConfig) ==
  /\ fileOk
  /\ saves < MaxSaves
  /\ cfgFile' = stringifyConfig(newConfig, cfgFile)
  /\ saves' = saves + 1
  /\ UNCHANGED <<fileOk, inbox, d, inflight, processEnv, config, writing, epoch, message, verdict>>

\* POST /api/config up to the point where fs.writeFile (webui.js:666) has
\* opened config.env for writing, which leaves the file empty until the
\* content is written: the template was read and merged (webui.js:650-663).
WriteOpened(newConfig) ==
  /\ fileOk
  /\ saves < MaxSaves
  /\ writing = NoWrite
  /\ writing' = <<stringifyConfig(newConfig, cfgFile)>>
  /\ cfgFile' = EmptyEnv
  /\ UNCHANGED <<fileOk, inbox, d, inflight, processEnv, config, saves, epoch,
                 message, verdict>>

\* fs.writeFile has written the content and the save answers success
\* (webui.js:666-670).
WriteDone ==
  /\ writing # NoWrite
  /\ cfgFile' = writing[1]
  /\ writing' = NoWrite
  /\ saves' = saves + 1
  /\ UNCHANGED <<fileOk, inbox, d, inflight, processEnv, config, epoch, message,
                 verdict>>

\* reloadConfig (config.js:213-265), called by POST /api/reload-config
\* (webui.js:1261-1265): the keys are deleted from process.env and loaded
\* again from the file; the object built from them is returned to the
\* caller, the exported config object is not assigned.
ReloadConfig ==
  /\ processEnv' = readEnv
  /\ processEnv' # processEnv
  /\ UNCHANGED <<cfgFile, fileOk, inbox, d, inflight, config, writing, saves, epoch,
                 message, verdict>>

\* A process started on any of the files; config.env has since been left
\* as it was, replaced, or removed.
SaveInit ==
  /\ cfgFile \in SaveFiles
  /\ fileOk \in BOOLEAN
  /\ inbox = {1}
  /\ d = [e \in Events |-> IdleDispatch]
  /\ inflight = {}
  /\ processEnv \in SaveFiles
  /\ config = loadConfig(processEnv)
  /\ saves = 0
  /\ epoch = [e \in Events |-> NotRun]
  /\ message = NoMessage
  /\ verdict = NoVerdict
  /\ writing = NoWrite

SaveNext ==
  \/ Next
  \/ \E newConfig \in SaveFiles : SaveConfig(newConfig)
  \/ ReloadConfig

SaveSpec == SaveInit /\ [][SaveNext]_vars

\* ------------------------------------------------- registry, any values
\* new URL(text) does not throw (config.js:87): text is one absolute URL.
AbsoluteUrls == {"http://p", "http://a", "http://b"}
IsAbsoluteUrl(text) == Len(text) = 1 /\ text[1] \in AbsoluteUrls

\* Values an operator can leave in config.env: unset, blank, the placeholder
\* (bare or padded), text that is no URL, a URL; in the map also a value
\* that is not a string.
AnyPrimaryValues ==
  {<< >>, <<" ">>, Placeholder, <<" ", "your_n8n_webhook_url_here", " ">>,
   <<"not a url">>, <<"http://p">>}
AnyHookNames == {"alpha", "empty", "blank", "stale", "broken", "number"}

AnyHookValue(name) ==
  CASE name = "alpha" -> Str(<<"http://a">>)
    [] name = "empty" -> Str(<< >>)
    [] name = "blank" -> Str(<<" ", " ">>)
    [] name = "stale" -> Str(<<" ", "your_n8n_webhook_url_here">>)
    [] name = "broken" -> Str(<<"not a url">>)
    [] OTHER -> [str |-> FALSE, text |-> <<"42">>]

\* The sequences of at most n entries with pairwise distinct names.
RECURSIVE AnyEntrySeqs(_)
AnyEntrySeqs(n) ==
  IF n = 0 THEN {<< >>}
  ELSE LET shorter == AnyEntrySeqs(n - 1)
       IN shorter \cup
          {Append(q, [name |-> x, url |-> AnyHookValue(x)]) :
             <<q, x>> \in {qx \in shorter \X AnyHookNames :
                             /\ Len(qx[1]) = n - 1
                             /\ \A i \in 1..Len(qx[1]) : qx[1][i].name # qx[2]}}

AnyFiles ==
  {[EmptyEnv EXCEPT !.N8N_WEBHOOK_URL = u, !.N8N_WEBHOOKS = h] :
     <<u, h>> \in AnyPrimaryValues \X
                  ({NoHooks, BadHooks} \cup {Hooks(es) : es \in AnyEntrySeqs(MaxHooks) \ {<< >>}})}

RegistryInit ==
  /\ cfgFile \in AnyFiles
  /\ fileOk = TRUE
  /\ inbox = {1}
  /\ d = [e \in Events |-> IdleDispatch]
  /\ inflight = {}
  /\ processEnv = cfgFile
  /\ config = loadConfig(cfgFile)
  /\ saves = 0
  /\ epoch = [e \in Events |-> NotRun]
  /\ message = NoMessage
  /\ verdict = NoVerdict
  /\ writing = NoWrite

RegistrySpec == RegistryInit /\ [][Next]_vars

\* ------------------------------------------------------ trigger filter
\* Contents are sequences of characters, except that the opening "<@" of a
\* user mention and a user id stand as one character each.  client.user.id
\* is the id of the bot; the mention of the bot is <@id> or <@!id>.
client == [user |-> [id |-> "42"]]

\* String.prototype.startsWith
StartsWith(s, p) == Len(s) >= Len(p) /\ SubSeq(s, 1, Len(p)) = p

\* The length of the match of /<@!?id>/ at the head of s, 0 for no match.
MentionAt(s, id) ==
  IF Len(s) >= 3 /\ s[1] = "<@" /\ s[2] = id /\ s[3] = ">" THEN 3
  ELSE IF Len(s) >= 4 /\ s[1] = "<@" /\ s[2] = "!" /\ s[3] = id /\ s[4] = ">" THEN 4
  ELSE 0

\* mentionPatternTest.test(content) (filters.js:32-33)
HasMention(s, id) == \E i \in 1..Len(s) : MentionAt(SubSeq(s, i, Len(s)), id) > 0

\* content.replace(mentionPattern, '') with the g flag (filters.js:31, 47):
\* one pass from the left over the original text, matches not overlapping.
RECURSIVE RemoveMentions(_, _)
RemoveMentions(s, id) ==
  IF s = << >> THEN << >>
  ELSE IF MentionAt(s, id) > 0
       THEN RemoveMentions(SubSeq(s, MentionAt(s, id) + 1, Len(s)), id)
       ELSE <<Head(s)>> \o RemoveMentions(Tail(s), id)

\* /(^|\s)word(?=\s|$|[!,.?])/.test(content) (filters.js:35-36)
HasBroadcast(s, word) ==
  \E i \in 1..Len(s) :
    /\ s[i] = word
    /\ i = 1 \/ s[i - 1] = " "
    /\ i = Len(s) \/ s[i + 1] \in {" ", "!", ",", ".", "?"}

\* s.replace(/word/g, '')
RemoveWord(s, word) == SelectSeq(s, LAMBDA c : c # word)

\* Mutant: the author's bot flag is not looked at.
ignoresAuthor_never(m) == FALSE

\* filters.js:11, the test that ends isBotCalled for a bot author.
ignoresAuthor(m) == m.authorBot

\* Mutant: any content that starts with the prefix matches.
prefixMatches_loose(content, prefix) == StartsWith(content, prefix)

\* filters.js:19, the prefix test.
prefixMatches(content, prefix) ==
  StartsWith(content, prefix \o <<" ">>) \/ content = prefix

\* Mutant: the text after the prefix is returned as it stands.
prefixClean_untrimmed(content, prefix) ==
  IF StartsWith(content, prefix \o <<" ">>)
  THEN SubSeq(content, Len(prefix) + 2, Len(content)) ELSE << >>

\* filters.js:20-22, cleanContent under the prefix rule.
prefixClean(content, prefix) ==
  IF StartsWith(content, prefix \o <<" ">>)
  THEN Trim(SubSeq(content, Len(prefix) + 2, Len(content))) ELSE << >>

\* isBotCalled (filters.js:9-61).  A rule is text: null is << >>.
isBotCalled(m, cl) ==
  IF ignoresAuthor(m)
  THEN [called |-> FALSE, rule |-> Null, cleanContent |-> m.content]
  ELSE
    LET content == Trim(m.content)
        prefix == config.bot.prefix
        botMentioned == HasMention(content, cl.user.id) \/ m.mentionsUser
        everyoneMentioned ==
          \/ m.mentionsEveryone
          \/ HasBroadcast(content, "@everyone")
          \/ HasBroadcast(content, "@here")
        allowEveryoneMentions == config.bot.allowEveryoneMentions
    IN IF prefixMatches(content, prefix)
       THEN [called |-> TRUE, rule |-> <<"prefix:">> \o prefix,
             cleanContent |-> prefixClean(content, prefix)]
       ELSE IF botMentioned \/ (allowEveryoneMentions /\ everyoneMentioned)
       THEN [called |-> TRUE, rule |-> <<"mention">>,
             cleanContent |->
               IF botMentioned THEN Trim(RemoveMentions(content, cl.user.id))
               ELSE IF everyoneMentioned
               THEN Trim(RemoveWord(RemoveWord(content, "@everyone"), "@here"))
               ELSE content]
       ELSE [called |-> FALSE, rule |-> Null, cleanContent |-> content]

\* Mutant: every guild is let through.
isGuildAllowed_open(guild) == guild # Null

\* isGuildAllowed (filters.js:68-77); guild is the guild's id, << >> for none.
isGuildAllowed(guild) ==
  IF guild = Null THEN FALSE
  ELSE LET allowedGuildIds == config.bot.allowedGuildIds
       IN IF allowedGuildIds = << >> THEN TRUE
          ELSE \E i \in 1..Len(allowedGuildIds) : allowedGuildIds[i] = guild

\* Mutant: the setting is the one the process started with.
areDMsAllowed_startup == config.bot.allowDMs

\* areDMsAllowed (index.js:12-21), once its read of config.env has returned.
areDMsAllowed == readEnv.ALLOW_DMS \in {<<"true">>, <<"1">>}

\* message.channel.isDMBased(): discord.js gives a message a guild exactly
\* when its channel is a guild channel.
isDMBased(m) == m.guild = Null

\* Mutant: the channel is named as discord.js names it, a DM with no name.
channelNameOf_raw(m) == IF isDMBased(m) THEN Null ELSE <<"general">>

\* index.js:576, the name of the channel in the payload.
channelNameOf(m) == IF isDMBased(m) THEN <<"dm">> ELSE <<"general">>

\* Mutant: the rule is not carried into the payload.
relayOf_norule(matchedRule) ==
  [version |-> 1, source |-> "discord", bot_called |-> TRUE, matched_rule |-> Null]

\* index.js:595-600, the relay object of the payload.
relayOf(matchedRule) ==
  [version |-> 1, source |-> "discord", bot_called |-> TRUE,
   matched_rule |-> matchedRule]

\* formatMessageEvent (index.js:550-624).  An optional object is << >> for
\* null and <<object>> otherwise; timestamps and ids are not followed.
formatMessageEvent(m, eventType, matchedRule) ==
  [event_type |-> eventType,
   relay |-> relayOf(matchedRule),
   timestamp |-> "now",
   guild |-> IF m.guild # Null THEN <<[id |-> m.guild, name |-> "guild"]>> ELSE Null,
   channel |-> [id |-> "channel", name |-> channelNameOf(m)],
   message |-> [id |-> "message", content |-> m.content,
                clean_content |-> Trim(m.content), created_at |-> "createdAt",
                attachments |-> [i \in 1..Len(m.attachments) |->
                                   [id |-> m.attachments[i]]],
                embeds |-> IF Len(m.embeds) > 0
                           THEN [i \in 1..Len(m.embeds) |-> [title |-> m.embeds[i]]]
                           ELSE << >>],
   author |-> [id |-> "author", bot |-> m.authorBot]]

\* ----------------------------------------------- the message handler
\* isBotCalled and isGuildAllowed applied to the message.
Evaluate ==
  /\ ~verdict.applied
  /\ verdict' = [applied |-> TRUE,
                 called |-> isBotCalled(message, client).called,
                 rule |-> isBotCalled(message, client).rule,
                 cleanContent |-> isBotCalled(message, client).cleanContent,
                 allowed |-> isGuildAllowed(message.guild),
                 at |-> saves]
  /\ UNCHANGED <<cfgFile, fileOk, inbox, d, inflight, processEnv, config, writing, saves,
                 epoch, message>>

\* The handler has called sendToN8n(payload) (index.js:225-228).
Dispatching(r, payload) == [r EXCEPT !.pc = "reading", !.payload = payload]

\* The MessageCreate handler up to its first await (index.js:113-228): a bot
\* author ends it; a direct message waits for areDMsAllowed (pc dmcheck); a
\* guild message is dropped unless its guild is allowed and the bot was
\* called, and is otherwise formatted and handed to sendToN8n.
MessageCreate(e) ==
  /\ e \in inbox
  /\ d[e].pc = "idle"
  /\ inbox' = inbox \ {e}
  /\ epoch' = [epoch EXCEPT ![e] = saves]
  /\ LET callResult == isBotCalled(message, client)
     IN d' = [d EXCEPT ![e] =
          IF message.authorBot THEN [@ EXCEPT !.pc = "dropped"]
          ELSE IF message.guild = Null THEN [@ EXCEPT !.pc = "dmcheck"]
          ELSE IF ~isGuildAllowed(message.guild) THEN [@ EXCEPT !.pc = "dropped"]
          ELSE IF ~callResult.called THEN [@ EXCEPT !.pc = "dropped"]
          ELSE Dispatching(@, formatMessageEvent(message, "message_create",
                                                 callResult.rule))]
  /\ UNCHANGED <<cfgFile, fileOk, inflight, processEnv, config, writing, saves, message, verdict>>

\* Mutant: a direct message needs the prefix or a mention as well.
DmChecked_gated(e) ==
  /\ d[e].pc = "dmcheck"
  /\ d' = [d EXCEPT ![e] =
       IF ~areDMsAllowed \/ ~isBotCalled(message, client).called
       THEN [@ EXCEPT !.pc = "dropped"]
       ELSE Dispatching(@, formatMessageEvent(message, "message_create", <<"dm">>))]
  /\ UNCHANGED <<cfgFile, fileOk, inbox, inflight, processEnv, config, writing, saves, epoch,
                 message, verdict>>

\* areDMsAllowed has returned (index.js:146-160, 225-228).
DmChecked(e) ==
  /\ d[e].pc = "dmcheck"
  /\ d' = [d EXCEPT ![e] =
       IF ~areDMsAllowed THEN [@ EXCEPT !.pc = "dropped"]
       ELSE Dispatching(@, formatMessageEvent(message, "message_create", <<"dm">>))]
  /\ UNCHANGED <<cfgFile, fileOk, inbox, inflight, processEnv, config, writing, saves, epoch,
                 message, verdict>>

\* Mutant: the exception leaves the handler; the rejection of its promise,
\* which nothing handles, ends the process and with it every delivery.
CatchError_unhandled(e) ==
  /\ \/ e \in inbox /\ d[e].pc = "idle"
     \/ d[e].pc = "dmcheck"
  /\ d' = [d EXCEPT ![e] = [@ EXCEPT !.pc = "failed"]]
  /\ inbox' = {}
  /\ epoch' = [epoch EXCEPT ![e] = saves]
  /\ UNCHANGED <<cfgFile, fileOk, inflight, processEnv, config, writing, saves, message, verdict>>

\* An exception is raised in the handler of event e before sendToN8n is
\* called, while it filters, admits or formats the message, at a first run
\* or after areDMsAllowed: the try block that holds the whole body of the
\* handler (index.js:114-263) is left for its catch, which logs the error
\* and returns (index.js:264-270).
CatchError(e) ==
  /\ \/ e \in inbox /\ d[e].pc = "idle"
     \/ d[e].pc = "dmcheck"
  /\ d' = [d EXCEPT ![e] = [@ EXCEPT !.pc = "failed"]]
  /\ inbox' = inbox \ {e}
  /\ epoch' = [epoch EXCEPT ![e] = saves]
  /\ UNCHANGED <<cfgFile, fileOk, inflight, processEnv, config, writing, saves, message, verdict>>

\* mockMessage of POST /api/test-discord (webui.js:850-886): a message of a
\* user in a text channel of a made-up guild; mentions.users has no `has`,
\* mentions.everyone is not set.
mockMessage(testMsg) ==
  [content |-> testMsg, authorBot |-> FALSE, guild |-> <<"345678901234567890">>,
   mentionsUser |-> FALSE, mentionsEveryone |-> FALSE,
   attachments |-> << >>, embeds |-> << >>]

\* The test messages posted: none, a command under each prefix, a word.
TestMessages ==
  {<< >>, DefaultPrefix \o <<" ", "x">>, <<"?", " ", "x">>, <<"x">>}

\* POST /api/test-discord once its read of config.env has returned
\* (webui.js:844-914): the message defaults to the prefix of config.env and
\* ' teste'; the mock is judged by isBotCalled and, when the bot was called,
\* formatted and handed to sendToN8n.
TestDiscord(e) ==
  /\ e \in inbox
  /\ d[e].pc = "idle"
  /\ inbox' = inbox \ {e}
  /\ epoch' = [epoch EXCEPT ![e] = saves]
  /\ \E testMessage \in TestMessages :
       LET prefix == IF Truthy(readEnv.BOT_PREFIX) THEN readEnv.BOT_PREFIX
                     ELSE DefaultPrefix
           testMsg == IF Truthy(testMessage) THEN testMessage
                      ELSE prefix \o <<" ", "t", "e", "s", "t", "e">>
           callResult == isBotCalled(mockMessage(testMsg), client)
       IN /\ message' = mockMessage(testMsg)
          /\ d' = [d EXCEPT ![e] =
               IF ~callResult.called THEN [@ EXCEPT !.pc = "dropped"]
               ELSE Dispatching(@, formatMessageEvent(mockMessage(testMsg),
                                                      "message_create", callResult.rule))]
  /\ UNCHANGED <<cfgFile, fileOk, inflight, processEnv, config, writing, saves, verdict>>

\* The pieces of the contents explored: the default prefix, a blank, a word
\* tail as in "!botty", a word bare and padded, the two forms of the bot's
\* mention, its two halves, the mention of another user, another prefix.
Pieces ==
  {DefaultPrefix, <<" ">>, <<"t", "y">>, <<"x">>, <<" ", "x", " ">>,
   <<"<@", "42", ">">>, <<"<@", "!", "42", ">">>, <<"<@">>, <<"42", ">">>,
   <<"<@", "77", ">">>, <<"?">>}

RECURSIVE Contents(_)
Contents(n) ==
  IF n = 0 THEN {<< >>}
  ELSE Contents(n - 1) \cup {c \o p : <<c, p>> \in Contents(n - 1) \X Pieces}

Messages ==
  [content : Contents(MaxPieces), authorBot : BOOLEAN, guild : {Null, <<"g1">>},
   mentionsUser : BOOLEAN, mentionsEveryone : {FALSE},
   attachments : {<< >>}, embeds : {<< >>}]

\* The bot settings explored: all unset, or a prefix, an allow-list and
\* direct messages allowed.
BotSet ==
  [EmptyEnv EXCEPT !.BOT_PREFIX = <<"?">>, !.ALLOWED_GUILD_IDS = <<"g1">>,
                   !.ALLOW_DMS = <<"true">>]
FilterFiles == {EmptyEnv, BotSet}

FilterInit ==
  /\ cfgFile \in FilterFiles
  /\ fileOk = TRUE
  /\ inbox = {1}
  /\ d = [e \in Events |-> IdleDispatch]
  /\ inflight = {}
  /\ processEnv = cfgFile
  /\ config = loadConfig(cfgFile)
  /\ saves = 0
  /\ epoch = [e \in Events |-> NotRun]
  /\ message \in Messages
  /\ verdict = NoVerdict
  /\ writing = NoWrite

FilterNext ==
  \/ Evaluate
  \/ \E e \in Events : MessageCreate(e) \/ DmChecked(e)

FilterSpec == FilterInit /\ [][FilterNext]_vars

\* The messages that tell the settings apart: each prefix alone and with a
\* command, from a guild inside, and a guild outside, the allow-list.
TriggerMessages ==
  [content : {DefaultPrefix, <<"?">>, DefaultPrefix \o <<" ", "x">>, <<"?", " ", "x">>},
   authorBot : {FALSE}, guild : {<<"g1">>, <<"g3">>},
   mentionsUser : {FALSE}, mentionsEveryone : {FALSE},
   attachments : {<< >>}, embeds : {<< >>}]

\* A process started on one file whose config.env is then another, saved
\* over and reloaded while a message arrives.
TriggerInit ==
  /\ cfgFile \in SaveFiles
  /\ fileOk = TRUE
  /\ inbox = {1}
  /\ d = [e \in Events |-> IdleDispatch]
  /\ inflight = {}
  /\ processEnv \in SaveFiles
  /\ config = loadConfig(processEnv)
  /\ saves = 0
  /\ epoch = [e \in Events |-> NotRun]
  /\ message \in TriggerMessages
  /\ verdict = NoVerdict
  /\ writing = NoWrite

TriggerNext ==
  \/ \E newConfig \in SaveFiles : SaveConfig(newConfig)
  \/ ReloadConfig
  \/ Evaluate
  \/ \E e \in Events : MessageCreate(e)

TriggerSpec == TriggerInit /\ [][TriggerNext]_vars

\* The pieces of the contents that tell the broadcast rule apart: the two
\* broadcast words, a blank, a letter, a full stop, the default prefix and
\* the bot's mention.
BroadcastPieces ==
  {<<"@everyone">>, <<"@here">>, <<" ">>, <<"x">>, <<".">>, DefaultPrefix,
   <<"<@", "42", ">">>}

RECURSIVE BroadcastContents(_)
BroadcastContents(n) ==
  IF n = 0 THEN {<< >>}
  ELSE BroadcastContents(n - 1)
         \cup {c \o p : <<c, p>> \in BroadcastContents(n - 1) \X BroadcastPieces}

BroadcastMessages ==
  [content : BroadcastContents(MaxPieces), authorBot : BOOLEAN, guild : {<<"g1">>},
   mentionsUser : BOOLEAN, mentionsEveryone : BOOLEAN,
   attachments : {<< >>}, embeds : {<< >>}]

\* A configuration that asks for broadcast mentions, and one that does not.
BroadcastSet == [EmptyEnv EXCEPT !.ALLOW_EVERYONE_MENTIONS = <<"true">>]
BroadcastFiles == {EmptyEnv, BroadcastSet}

BroadcastInit ==
  /\ cfgFile \in BroadcastFiles
  /\ fileOk = TRUE
  /\ inbox = {1}
  /\ d = [e \in Events |-> IdleDispatch]
  /\ inflight = {}
  /\ processEnv = cfgFile
  /\ config = loadConfig(cfgFile)
  /\ saves = 0
  /\ epoch = [e \in Events |-> NotRun]
  /\ message \in BroadcastMessages
  /\ verdict = NoVerdict
  /\ writing = NoWrite

BroadcastNext ==
  \/ Evaluate
  \/ \E e \in Events : MessageCreate(e)

BroadcastSpec == BroadcastInit /\ [][BroadcastNext]_vars

\* The settings the handler is explored under: one destination, the prefix
\* default or set, the allow-list absent or naming two guilds, direct
\* messages allowed or not.
HandlerFiles ==
  {[PrimaryOnly EXCEPT !.BOT_PREFIX = p, !.ALLOWED_GUILD_IDS = g, !.ALLOW_DMS = a] :
     p \in {<< >>, <<"?">>}, g \in {<< >>, <<"g1", ",", " ", "g2">>},
     a \in {<< >>, <<"true">>}}

\* The inbound messages: a command under each prefix, a mention of the bot,
\* a padded word and the empty content; from a bot or not; direct, from a
\* guild on the list and from one off it; with and without attachments and
\* embeds.
HandlerMessages ==
  [content : {DefaultPrefix \o <<" ", "summarize", " ", "this">>, <<"?", " ", "x">>,
              <<"<@", "42", ">", " ", "x">>, <<" ", "x", " ">>, << >>},
   authorBot : BOOLEAN, guild : {Null, <<"g2">>, <<"g3">>},
   mentionsUser : {FALSE}, mentionsEveryone : {FALSE},
   attachments : {<< >>, <<"a1", "a2">>}, embeds : {<< >>, <<"e1">>}]

\* A process started on one config.env, whose ALLOW_DMS may have been saved
\* to another value since, receives one message.
HandlerInit ==
  /\ processEnv \in HandlerFiles
  /\ cfgFile \in {[processEnv EXCEPT !.ALLOW_DMS = a] : a \in {<< >>, <<"true">>}}
  /\ fileOk = TRUE
  /\ inbox = {1}
  /\ d = [e \in Events |-> IdleDispatch]
  /\ inflight = {}
  /\ config = loadConfig(processEnv)
  /\ saves = 0
  /\ epoch = [e \in Events |-> NotRun]
  /\ message \in HandlerMessages
  /\ verdict = NoVerdict
  /\ writing = NoWrite

HandlerNext ==
  \E e \in Events :
    \/ MessageCreate(e)
    \/ DmChecked(e)
    \/ Resolve(e)
    \/ Respond(e)
    \/ TimerFires(e)
    \/ Collect(e)

HandlerSpec == HandlerInit /\ [][HandlerNext]_vars

\* The handler and the test endpoint of the web UI, either of which takes
\* the one call of sendToN8n of the behaviour.
EndpointNext ==
  \/ HandlerNext
  \/ \E e \in Events : TestDiscord(e)

EndpointSpec == HandlerInit /\ [][EndpointNext]_vars

\* sendToN8n has returned and the handler goes on (index.js:228-270).  With
\* an empty list it builds the data of the warning, guildId: message.guild.id
\* among them (index.js:233-237): message.guild is null for a direct message,
\* the read raises a TypeError before logger.warn is called, and the catch
\* of the handler logs 'Error processing message' (index.js:264-270).  With
\* results it logs one entry per result.
HandlerResumes(e) ==
  /\ d[e].pc = "done"
  /\ d' = [d EXCEPT ![e] =
       IF Len(@.results) = 0
       THEN IF message.guild = Null THEN [@ EXCEPT !.pc = "failed"]
            ELSE [@ EXCEPT !.pc = "warned"]
       ELSE [@ EXCEPT !.pc = "logged"]]
  /\ UNCHANGED <<cfgFile, fileOk, inbox, inflight, processEnv, config, writing, saves, epoch,
                 message, verdict>>

\* A relayed event with no destination configured, or with one: a prefix
\* command in a guild, or a direct message while direct messages are on.
ReportFiles ==
  {[f EXCEPT !.ALLOW_DMS = <<"true">>] : f \in {EmptyEnv, PrimaryOnly}}

ReportMessages ==
  {[NoMessage EXCEPT !.content = DefaultPrefix \o <<" ", "x">>, !.guild = g] :
     g \in {Null, <<"g2">>}}

ReportInit ==
  /\ cfgFile \in ReportFiles
  /\ fileOk = TRUE
  /\ inbox = {1}
  /\ d = [e \in Events |-> IdleDispatch]
  /\ inflight = {}
  /\ processEnv = cfgFile
  /\ config = loadConfig(cfgFile)
  /\ saves = 0
  /\ epoch = [e \in Events |-> NotRun]
  /\ message \in ReportMessages
  /\ verdict = NoVerdict
  /\ writing = NoWrite

ReportNext ==
  \/ HandlerNext
  \/ \E e \in Events : HandlerResumes(e)

ReportSpec == ReportInit /\ [][ReportNext]_vars

\* A burst of events, each delivering a message alike, sent directly: a
\* prefix command or, from a bot, a padded word.
BurstMessages ==
  {[NoMessage EXCEPT !.content = DefaultPrefix \o <<" ", "x">>],
   [NoMessage EXCEPT !.content = <<" ", "x", " ">>, !.authorBot = TRUE]}

BurstInit ==
  /\ cfgFile = [PrimaryOnly EXCEPT !.ALLOW_DMS = <<"true">>]
  /\ fileOk = TRUE
  /\ inbox = Events
  /\ d = [e \in Events |-> IdleDispatch]
  /\ inflight = {}
  /\ processEnv = cfgFile
  /\ config = loadConfig(cfgFile)
  /\ saves = 0
  /\ epoch = [e \in Events |-> NotRun]
  /\ message \in BurstMessages
  /\ verdict = NoVerdict
  /\ writing = NoWrite

BurstNext ==
  \E e \in Events :
    \/ MessageCreate(e)
    \/ DmChecked(e)
    \/ CatchError(e)
    \/ Resolve(e)
    \/ Respond(e)
    \/ TimerFires(e)
    \/ Collect(e)

BurstSpec == BurstInit /\ [][BurstNext]_vars

\* Two events, one after the other in the same channel, each delivering a
\* message alike.
PairInit ==
  /\ cfgFile = [PrimaryOnly EXCEPT !.ALLOW_DMS = <<"true">>]
  /\ fileOk = TRUE
  /\ inbox = {1, 2}
  /\ d = [e \in Events |-> IdleDispatch]
  /\ inflight = {}
  /\ processEnv = cfgFile
  /\ config = loadConfig(cfgFile)
  /\ saves = 0
  /\ epoch = [e \in Events |-> NotRun]
  /\ message \in BurstMessages
  /\ verdict = NoVerdict
  /\ writing = NoWrite

PairSpec == PairInit /\ [][BurstNext]_vars

\* The files with a destination: a process started on one of them
\* dispatches an event while the management interface saves one of them.
RaceFiles == {PrimaryOnly, NamedSigned}

RaceInit ==
  /\ cfgFile \in RaceFiles
  /\ fileOk = TRUE
  /\ inbox = {1}
  /\ d = [e \in Events |-> IdleDispatch]
  /\ inflight = {}
  /\ processEnv = cfgFile
  /\ config = loadConfig(cfgFile)
  /\ saves = 0
  /\ epoch = [e \in Events |-> NotRun]
  /\ message = NoMessage
  /\ verdict = NoVerdict
  /\ writing = NoWrite

RaceNext ==
  \/ Next
  \/ \E newConfig \in RaceFiles : WriteOpened(newConfig)
  \/ WriteDone

RaceSpec == RaceInit /\ [][RaceNext]_vars

\* Configurations whose map of named destinations has the key 'default',
\* alone or after another key, with and without a primary URL.
ReservedFiles ==
  {[EmptyEnv EXCEPT !.N8N_WEBHOOK_URL = u, !.N8N_WEBHOOKS = Hooks(es)] :
     u \in {<< >>, <<"http://p">>},
     es \in {<<[name |-> "default", url |-> Str(<<"http://d">>)]>>,
             <<[name |-> "alpha", url |-> HookValue("alpha")],
               [name |-> "default", url |-> Str(<<"http://d">>)]>>}}

ReservedInit ==
  /\ cfgFile \in ReservedFiles
  /\ fileOk = TRUE
  /\ inbox = {1}
  /\ d = [e \in Events |-> IdleDispatch]
  /\ inflight = {}
  /\ processEnv = cfgFile
  /\ config = loadConfig(cfgFile)
  /\ saves = 0
  /\ epoch = [e \in Events |-> NotRun]
  /\ message = NoMessage
  /\ verdict = NoVerdict
  /\ writing = NoWrite

ReservedSpec == ReservedInit /\ [][Next]_vars

\* A process started on config.env, which can or cannot be read when one
\* message arrives.
OutageInit ==
  /\ cfgFile \in HandlerFiles
  /\ fileOk \in BOOLEAN
  /\ inbox = {1}
  /\ d = [e \in Events |-> IdleDispatch]
  /\ inflight = {}
  /\ processEnv = cfgFile
  /\ config = loadConfig(cfgFile)
  /\ saves = 0
  /\ epoch = [e \in Events |-> NotRun]
  /\ message \in HandlerMessages
  /\ verdict = NoVerdict
  /\ writing = NoWrite

OutageSpec == OutageInit /\ [][HandlerNext]_vars

\* --------------------------------------------------------- testWebhook
\* Mutant: any response counts as a success.
testSuccess_any(status) == TRUE

\* part_004:258
testSuccess(status) == status >= 200 /\ status < 300

\* What testWebhook returns (part_004:250-271) when its axios.post, whose
\* validateStatus accepts every status, settles with outcome o.
testResult(o) ==
  IF o.kind = "response"
  THEN [success |-> testSuccess(o.status), status |-> o.status, error |-> ""]
  ELSE [success |-> FALSE, status |-> NoStatus, error |-> errorCode(o)]

\* POST /api/test-webhook with a valid URL (webui.js:745-766) calls
\* testWebhook, which builds its headers and sends its one request
\* (part_004:221-254).
TestWebhook(e) ==
  /\ e \in inbox
  /\ d[e].pc = "idle"
  /\ inbox' = inbox \ {e}
  /\ \E webhookUrl \in {<<"http://t">>, <<"http://u">>}, sharedSecret \in SecretValues :
       LET r == [d[e] EXCEPT !.pc = "testing", !.payload = "testPayload", !.nreq = 1,
                             !.headers = buildHeaders("testPayload", sharedSecret, 0)]
       IN /\ d' = [d EXCEPT ![e] = r]
          /\ inflight' = inflight \cup
               {[ev |-> e, idx |-> 0, webhook |-> "test", url |-> webhookUrl,
                 body |-> r.payload, headers |-> r.headers, attempt |-> 0,
                 sentAt |-> 0]}
  /\ UNCHANGED <<cfgFile, fileOk, processEnv, config, writing, saves, epoch, message,
                 verdict>>

\* The request of testWebhook settles and testWebhook returns its result
\* (part_004:250-271).
TestAnswered(e) ==
  /\ d[e].pc = "testing"
  /\ \E q \in inflight, o \in Outcomes :
       /\ q.ev = e
       /\ d' = [d EXCEPT ![e] = [@ EXCEPT !.pc = "tested", !.ret = testResult(o),
                                          !.last = o]]
       /\ inflight' = inflight \ {q}
  /\ UNCHANGED <<cfgFile, fileOk, inbox, processEnv, config, writing, saves, epoch,
                 message, verdict>>

\* The calls of the endpoint, one per event.
TestInit ==
  /\ cfgFile = EmptyEnv
  /\ fileOk = TRUE
  /\ inbox = Events
  /\ d = [e \in Events |-> IdleDispatch]
  /\ inflight = {}
  /\ processEnv = cfgFile
  /\ config = loadConfig(cfgFile)
  /\ saves = 0
  /\ epoch = [e \in Events |-> NotRun]
  /\ message = NoMessage
  /\ verdict = NoVerdict
  /\ writing = NoWrite

TestNext == \E e \in Events : TestWebhook(e) \/ TestAnswered(e)

TestSpec == TestInit /\ [][TestNext]_vars

\* ------------------------------------------- config.env line by line
\* config.env as text: a sequence of lines, each a comment or KEY=value
\* with the value as written after the = sign.
EnvKeys == {"BOT_PREFIX", "ALLOW_DMS"}
Comment == [kind |-> "comment", key |-> "", value |-> << >>]
Pair(k, v) == [kind |-> "pair", key |-> k, value |-> v]

\* The value of the line after its white space and a pair of surrounding
\* quotes are taken off (config.js:293, 297-304).
Unquote(v) ==
  LET value == Trim(v)
  IN IF Len(value) >= 2 /\ value[1] = "'" /\ value[Len(value)] = "'"
     THEN SubSeq(value, 2, Len(value) - 1) ELSE value

\* parseEnv (config.js:288-310): for each key the value of its last line;
\* a key without a line is undefined, which reads as << >> like ''.
parseEnv(content) ==
  [k \in EnvKeys |->
     LET at == {i \in 1..Len(content) :
                  content[i].kind = "pair" /\ content[i].key = k}
     IN IF at = {} THEN Null
        ELSE Unquote(content[CHOOSE i \in at : \A j \in at : j <= i].value)]

\* {...existingConfig, ...newConfig} (webui.js:659-660); newConfig has the
\* keys the request sent.
Merged(existingConfig, newConfig) ==
  [k \in EnvKeys |-> IF k \in DOMAIN newConfig THEN newConfig[k] ELSE existingConfig[k]]

\* stringifyConfig (webui.js:581-608) on the text: a comment is kept; the
\* line of a key whose value in config is defined and not '' becomes
\* KEY=value; any other line is kept; no line is added.
stringifyLines(cfg, template) ==
  [i \in 1..Len(template) |->
     IF template[i].kind = "pair" /\ cfg[template[i].key] # << >>
     THEN Pair(template[i].key, cfg[template[i].key])
     ELSE template[i]]

\* POST /api/config (webui.js:634-674) on the text of config.env.
SaveLines(newConfig) ==
  /\ saves < MaxSaves
  /\ cfgFile' = stringifyLines(Merged(parseEnv(cfgFile), newConfig), cfgFile)
  /\ saves' = saves + 1
  /\ UNCHANGED <<fileOk, inbox, d, inflight, processEnv, config, epoch, message,
                 verdict, writing>>

\* The values written in the file and sent by the editor: empty, a word,
\* another, a word after a blank, a word in quotes.
EnvValues == {<< >>, <<"v">>, <<"w">>, <<" ", "v">>, <<"'", "v", "'">>}

\* The files of at most two lines.
EnvLines == {Comment} \cup {Pair(k, v) : k \in EnvKeys, v \in EnvValues}
EnvTexts == {<< >>} \cup {<<l>> : l \in EnvLines} \cup {<<l, m>> : l, m \in EnvLines}

\* The requests: any keys, each with any value.
Requests == UNION {[S -> EnvValues] : S \in SUBSET EnvKeys}

RoundTripInit ==
  /\ cfgFile \in EnvTexts
  /\ fileOk = TRUE
  /\ inbox = {}
  /\ d = [e \in Events |-> IdleDispatch]
  /\ inflight = {}
  /\ processEnv = EmptyEnv
  /\ config = loadConfig(EmptyEnv)
  /\ saves = 0
  /\ epoch = [e \in Events |-> NotRun]
  /\ message = NoMessage
  /\ verdict = NoVerdict
  /\ writing = NoWrite

RoundTripNext == \E newConfig \in Requests : SaveLines(newConfig)

RoundTripSpec == RoundTripInit /\ [][RoundTripNext]_vars

\* ------------------------------------------------------------- claims
Is5xx(o) == o.kind = "response" /\ o.status >= 500
Is4xx(o) == o.kind = "response" /\ o.status >= 400 /\ o.status < 500
Is2xx(o) == o.kind = "response" /\ o.status >= 200 /\ o.status < 300
\* The requests of event e that are in flight.
InFlightOf(e) == {q \in inflight : q.ev = e}
\* The latest request to the current target has been answered.
Answered(r) == r.nreq >= 1 /\ r.pc # "inflight"
\* The call of sendToWebhook for the current target has ended.
Ended(r) == r.pc \in {"returned", "done"}
\* The result of the current target: returned, or already pushed.
LastResult(r) ==
  IF r.pc = "returned" THEN r.ret
  ELSE [success |-> r.results[Len(r.results)].success,
        status |-> r.results[Len(r.results)].status,
        error |-> r.results[Len(r.results)].error]

\* C1: a destination that answers every attempt with a status >= 500 gets
\* exactly 4 requests, never a 5th, and then a result with success=false.
C1_FiveHundredFourAttempts ==
  \A e \in Events :
    LET r == d[e]
    IN /\ r.nreq <= 4
       /\ (Answered(r) /\ r.only5xx /\ r.nreq < 4)
            => (r.pc = "backoff" /\ InFlightOf(e) = {})
       /\ (Answered(r) /\ r.only5xx /\ r.nreq = 4)
            => (Ended(r) /\ ~LastResult(r).success /\ InFlightOf(e) = {})

C1_Witness ==
  \E e \in Events :
    d[e].pc = "returned" /\ d[e].only5xx /\ d[e].nreq = 4 /\ ~d[e].ret.success

\* C2: an answer with a status in [400,500) ends the destination at that
\* attempt with success=false and that status; a 404 to the first attempt
\* means exactly one request.
C2_FourHundredTerminal ==
  \A e \in Events :
    LET r == d[e]
    IN Is4xx(r.last) =>
         /\ Ended(r)
         /\ InFlightOf(e) = {}
         /\ ~LastResult(r).success
         /\ LastResult(r).status = r.last.status
         /\ (r.attempt = 0 => r.nreq = 1)

C2_Witness ==
  \E e \in Events :
    /\ d[e].pc = "returned" /\ d[e].last.kind = "response"
    /\ d[e].last.status = 404 /\ d[e].nreq = 1

\* C3: a 2xx answer to attempt k+1 (0 <= k <= 3, the k attempts before it
\* having failed retryably) gives success=true with that status, and no
\* request follows it to that destination.
C3_SuccessAfterRetries ==
  \A e \in Events :
    LET r == d[e]
    IN Is2xx(r.last) =>
         /\ Ended(r)
         /\ InFlightOf(e) = {}
         /\ LastResult(r).success
         /\ LastResult(r).status = r.last.status
         /\ r.nreq = r.attempt + 1 /\ r.nreq <= 4

C3_Witness ==
  \E e \in Events :
    d[e].pc = "returned" /\ Is2xx(d[e].last) /\ d[e].nreq = 4 /\ d[e].ret.success

\* C4 (as claimed): an attempt ending in a connection-level error (refused,
\* the request exceeding its 10-second timeout, DNS failure) is followed by a
\* further attempt whenever fewer than 4 attempts were made.
C4_ConnectionErrorsRetried ==
  \A e \in Events :
    LET r == d[e]
    IN /\ (Answered(r) /\ r.last.kind = "failure"
             /\ r.last.failure \in {"refused", "request-timeout", "dns"}
             /\ r.nreq < 4)
            => r.pc = "backoff"
       /\ (Ended(r) /\ r.nreq >= 1 /\ r.last.kind = "failure"
             /\ r.last.failure \in {"refused", "request-timeout", "dns"})
            => (r.nreq = 4 /\ ~LastResult(r).success)

\* C5: the wait after attempt n is 1000 * 2^(n-1) ms for n = 1, 2, 3; there
\* is a wait only after a retryable failure, never after the 4th attempt or
\* a terminal outcome.
C5_Wait(n) == CASE n = 1 -> 1000 [] n = 2 -> 2000 [] n = 3 -> 4000 [] OTHER -> 0
C5_RetryableFailure(o) ==
  \/ Is5xx(o)
  \/ (o.kind = "failure" /\ errorCode(o) \in {"ECONNREFUSED", "ETIMEDOUT", "ENOTFOUND"})

C5_BackoffDelays ==
  \A e \in Events :
    LET r == d[e]
    IN /\ r.pc = "backoff" =>
            /\ r.nreq \in 1..3
            /\ r.delay = C5_Wait(r.nreq)
            /\ C5_RetryableFailure(r.last)
       /\ r.pc # "backoff" => r.delay = 0
       /\ (r.pc = "inflight" /\ r.nreq = 2) => r.clock = 1000
       /\ (r.pc = "inflight" /\ r.nreq = 3) => r.clock = 1000 + 2000
       /\ (r.pc = "inflight" /\ r.nreq = 4) => r.clock = 1000 + 2000 + 4000

C5_Witness ==
  \E e \in Events : d[e].pc = "backoff" /\ d[e].nreq = 3 /\ d[e].delay = 4000

\* C6: every call of sendToN8n returns its result list, after at most 4
\* requests per destination and with a final result for every destination it
\* started.
C6_DispatchTerminates ==
  /\ [](\A e \in Events :
          /\ d[e].nreq <= 4
          /\ d[e].pc = "done" => Len(d[e].results) = d[e].idx)
  /\ \A e \in Events : (d[e].pc = "reading") ~> (d[e].pc = "done")

C6_Witness ==
  \E e \in Events :
    /\ d[e].pc = "done" /\ Len(d[e].results) = 2
    /\ ~d[e].results[1].success /\ d[e].results[1].status = 500
    /\ d[e].results[2].success

\* C7: sendToN8n returns exactly one result per resolved destination,
\* 'default' first when a primary URL is resolved and then the named
\* destinations in the order of the map, whatever failed.
C7_OneResultPerDestination ==
  \A e \in Events :
    LET r == d[e]
        k == IF r.cfg.defaultWebhook # Null THEN 1 ELSE 0
        n == Len(r.cfg.webhooks)
    IN /\ r.pc \in {"inflight", "backoff", "returned"} => Len(r.results) = r.idx - 1
       /\ r.pc = "done" =>
            /\ Len(r.results) = k + n
            /\ k = 1 => /\ r.results[1].webhook = "default"
                        /\ r.results[1].url = r.cfg.defaultWebhook
            /\ \A j \in 1..n :
                 /\ r.results[k + j].webhook = r.cfg.webhooks[j].name
                 /\ r.results[k + j].url = r.cfg.webhooks[j].url

C7_Witness ==
  \E e \in Events :
    /\ d[e].pc = "done" /\ Len(d[e].results) = 3
    /\ d[e].results[1].webhook = "default" /\ ~d[e].results[1].success
    /\ d[e].results[2].webhook = "beta" /\ ~d[e].results[2].success
    /\ d[e].results[3].webhook = "alpha"

\* C8: within one dispatch a request is sent to a destination only when all
\* destinations before it have their result; at most one request of the
\* dispatch is in flight, and none while a destination waits in backoff.
C8_Sequential ==
  \A e \in Events :
    /\ Cardinality(InFlightOf(e)) <= 1
    /\ \A q \in InFlightOf(e) :
         /\ d[e].pc = "inflight"
         /\ q.idx = d[e].idx
         /\ q.idx = Len(d[e].results) + 1
    /\ d[e].pc = "backoff" => InFlightOf(e) = {}

C8_Witness ==
  \E e \in Events :
    /\ d[e].pc = "backoff" /\ d[e].idx = 1
    /\ Len(d[e].cfg.webhooks) >= 1 /\ d[e].cfg.defaultWebhook # Null
    /\ InFlightOf(e) = {}

\* C9: with no primary URL and no named destination resolved, sendToN8n sends
\* no request and returns the empty list; a list returned for a non-empty
\* destination set is never empty.
C9_NoDestinations ==
  \A e \in Events :
    LET r == d[e]
        none == r.cfg.defaultWebhook = Null /\ r.cfg.webhooks = << >>
    IN /\ none => (r.nreq = 0 /\ InFlightOf(e) = {} /\ r.results = << >>
                   /\ r.pc \in {"idle", "reading", "done"})
       /\ r.pc = "done" => (r.results = << >> <=> none)

C9_Witness ==
  \E e \in Events :
    /\ d[e].pc = "done" /\ d[e].results = << >>
    /\ fileOk /\ cfgFile.N8N_WEBHOOK_URL = Placeholder

\* C10: a request carries X-Relay-Signature iff the secret resolved for its
\* dispatch is non-empty, and the signature is the HMAC of the payload under
\* that secret, the same on every attempt and for every destination.
C10_SignatureIffSecret ==
  \A q \in inflight :
    LET r == d[q.ev]
    IN /\ (q.headers.XRelaySignature # Null) <=> (r.cfg.sharedSecret # << >>)
       /\ r.cfg.sharedSecret # << >> =>
            q.headers.XRelaySignature =
              <<"hmac-sha256", r.cfg.sharedSecret, <<"json", q.body>>>>
       /\ q.body = r.payload

C10_Witness ==
  \E q \in inflight :
    q.headers.XRelaySignature # Null /\ q.attempt >= 1 /\ q.idx >= 2

\* C11: every request carries, as X-Relay-Timestamp, the time at which that
\* attempt is sent, so a retry sent after a backoff wait carries a later
\* timestamp than the attempt before it.
C11_TimestampRefreshed ==
  \A q \in inflight : q.headers.XRelayTimestamp = q.sentAt

\* The destination URLs a configuration file names: its primary URL and the
\* string values of its named map, trimmed, the empty and the placeholder
\* left out.
SavedUrls(file) ==
  LET vals == {file.N8N_WEBHOOK_URL} \cup
              {file.N8N_WEBHOOKS.entries[i].url.text :
                 i \in {j \in 1..Len(file.N8N_WEBHOOKS.entries) :
                          file.N8N_WEBHOOKS.entries[j].url.str}}
  IN {Trim(v) : v \in {w \in vals : Trim(w) # << >> /\ Trim(w) # Placeholder}}

\* C12: a dispatch that started after a configuration save, with no save
\* since, contacts exactly the destinations of the saved file and signs with
\* its secret, whatever configuration the process loaded when it started.
C12_DestinationFreshness ==
  \A e \in Events :
    (epoch[e] >= 1 /\ epoch[e] = saves /\ d[e].pc \notin {"idle", "reading"}) =>
      LET r == d[e]
          secret == cfgFile.RELAY_SHARED_SECRET
      IN /\ {t.url : t \in {Targets(r.cfg)[i] : i \in 1..Len(Targets(r.cfg))}}
              = SavedUrls(cfgFile)
         /\ r.cfg.sharedSecret = secret
         /\ \A q \in InFlightOf(e) :
              /\ q.url \in SavedUrls(cfgFile)
              /\ q.headers.XRelaySignature =
                   IF secret = << >> THEN Null ELSE generateSignature(q.body, secret)
         /\ \A i \in 1..Len(r.results) : r.results[i].url \in SavedUrls(cfgFile)
         /\ r.pc = "done" =>
              {r.results[i].url : i \in 1..Len(r.results)} = SavedUrls(cfgFile)

\* A dispatch started after a save has reported on a destination, signed,
\* that the configuration loaded at start did not have.
C12_Witness ==
  /\ saves >= 1 /\ epoch[1] = saves
  /\ d[1].pc = "done" /\ d[1].results # << >>
  /\ d[1].cfg.sharedSecret # Null /\ config.relay.sharedSecret = Null
  /\ \A i \in 1..Len(d[1].results) :
       /\ d[1].results[i].url # config.n8n.webhookUrl
       /\ \A j \in 1..Len(config.n8n.webhooks) :
            d[1].results[i].url # config.n8n.webhooks[j].url

\* C13: a dispatch whose configuration read failed uses the destinations
\* and the secret of the configuration loaded at start, never an empty set
\* in their place.
C13_FallbackToSnapshot ==
  \A e \in Events :
    (~fileOk /\ d[e].pc \notin {"idle", "reading"}) =>
      d[e].cfg = [defaultWebhook |-> config.n8n.webhookUrl,
                  webhooks |-> config.n8n.webhooks,
                  sharedSecret |-> config.relay.sharedSecret]

\* A configured value that names no destination: empty after trimming, or
\* the placeholder.
Unconfigured(text) == Trim(text) = << >> \/ Trim(text) = Placeholder

\* C14: a primary URL or named entry whose value is empty after trimming or
\* is the placeholder is not in the resolved destination set: no request is
\* sent to it and no result is reported for it.
C14_NoPlaceholderDestination ==
  \A e \in Events :
    d[e].pc \notin {"idle", "reading"} =>
      LET r == d[e]
          es == cfgFile.N8N_WEBHOOKS.entries
          dead == (IF Unconfigured(cfgFile.N8N_WEBHOOK_URL) THEN {"default"} ELSE {})
                  \cup {es[i].name : i \in {j \in 1..Len(es) : Unconfigured(es[j].url.text)}}
      IN /\ Unconfigured(cfgFile.N8N_WEBHOOK_URL) => r.cfg.defaultWebhook = Null
         /\ \A i \in 1..Len(Targets(r.cfg)) :
              /\ Targets(r.cfg)[i].name \notin dead
              /\ ~Unconfigured(Targets(r.cfg)[i].url)
         /\ \A q \in InFlightOf(e) : q.webhook \notin dead /\ ~Unconfigured(q.url)
         /\ \A i \in 1..Len(r.results) :
              r.results[i].webhook \notin dead /\ ~Unconfigured(r.results[i].url)

\* A dispatch has reported on a destination while the primary URL is the
\* padded placeholder and the map holds a blank entry and a placeholder entry.
C14_Witness ==
  /\ d[1].pc = "done" /\ d[1].results # << >>
  /\ cfgFile.N8N_WEBHOOK_URL = <<" ", "your_n8n_webhook_url_here", " ">>
  /\ \E i, j \in 1..Len(cfgFile.N8N_WEBHOOKS.entries) :
       /\ cfgFile.N8N_WEBHOOKS.entries[i].name \in {"blank", "stale"}
       /\ cfgFile.N8N_WEBHOOKS.entries[j].name = "alpha"

\* C15: every URL of the resolved destination set parses as an absolute
\* URL: no request is sent to a value that is not a well-formed URL and no
\* result is reported for it.
C15_OnlyAbsoluteUrls ==
  \A e \in Events :
    d[e].pc \notin {"idle", "reading"} =>
      /\ \A i \in 1..Len(Targets(d[e].cfg)) : IsAbsoluteUrl(Targets(d[e].cfg)[i].url)
      /\ \A q \in InFlightOf(e) : IsAbsoluteUrl(q.url)
      /\ \A i \in 1..Len(d[e].results) : IsAbsoluteUrl(d[e].results[i].url)

\* The bot settings the configuration file holds now.
LiveBot == loadConfig(cfgFile).bot

\* C16: once the configuration file has been changed, a message is judged
\* by isBotCalled and isGuildAllowed against the prefix and the guild
\* allow-list the file holds now, without a restart.
C16_SettingsReadLive ==
  (verdict.applied /\ saves >= 1 /\ verdict.at = saves) =>
    /\ Trim(message.content) = LiveBot.prefix =>
         verdict.called /\ verdict.rule = <<"prefix:">> \o LiveBot.prefix
    /\ verdict.allowed =
         \/ LiveBot.allowedGuildIds = << >>
         \/ \E i \in 1..Len(LiveBot.allowedGuildIds) :
              LiveBot.allowedGuildIds[i] = message.guild

\* C17: a message of a bot-flagged author never gets called = TRUE from
\* isBotCalled and never starts a dispatch, whatever its content and
\* mentions, from a guild or direct.
C17_BotAuthorIgnored ==
  message.authorBot =>
    /\ verdict.applied => ~verdict.called
    /\ \A e \in Events : d[e].pc \in {"idle", "dropped"}
    /\ inflight = {}

\* A bot-authored guild message that starts with the prefix and mentions
\* the bot has been judged and handled.
C17_Witness ==
  /\ message.authorBot /\ message.guild # Null /\ message.mentionsUser
  /\ StartsWith(message.content, config.bot.prefix \o <<" ">>)
  /\ HasMention(message.content, client.user.id)
  /\ verdict.applied /\ d[1].pc = "dropped"

\* The trimmed content is the prefix, or the prefix, one space, and more.
PrefixCommand(c, p) ==
  \/ c = p
  \/ /\ Len(c) > Len(p)
     /\ \A i \in 1..Len(p) : c[i] = p[i]
     /\ c[Len(p) + 1] = " "

\* C18: for a non-bot author the rule is 'prefix:<prefix>' exactly when the
\* trimmed content is the prefix or starts with the prefix and one space,
\* also when the content mentions the bot; content that goes on after the
\* prefix without the space does not match.
C18_PrefixRule ==
  (verdict.applied /\ ~message.authorBot) =>
    LET c == Trim(message.content)
        p == config.bot.prefix
    IN /\ (verdict.rule = <<"prefix:">> \o p) <=> PrefixCommand(c, p)
       /\ PrefixCommand(c, p) => verdict.called
       /\ (StartsWith(c, p) /\ ~PrefixCommand(c, p)) => verdict.rule \in {Null, <<"mention">>}

\* The prefix rule was returned for a content that also mentions the bot.
C18_Witness ==
  /\ verdict.applied /\ ~message.authorBot
  /\ verdict.rule = <<"prefix:">> \o config.bot.prefix
  /\ HasMention(message.content, client.user.id)

\* C19: under the prefix rule cleanContent is empty when the trimmed content
\* is the prefix, and otherwise what follows the prefix and one space, with
\* no white space left at either end.
C19_PrefixCleanContent ==
  (verdict.applied /\ ~message.authorBot
     /\ verdict.rule = <<"prefix:">> \o config.bot.prefix) =>
    LET c == Trim(message.content)
        p == config.bot.prefix
        x == verdict.cleanContent
    IN /\ c = p => x = << >>
       /\ c # p =>
            /\ x # << >> /\ x[1] # " " /\ x[Len(x)] # " "
            /\ \E k \in 0..Len(c) : c = p \o <<" ">> \o [i \in 1..k |-> " "] \o x

\* The prefix rule was returned for a command padded with blanks on both
\* sides.
C19_Witness ==
  /\ verdict.applied /\ ~message.authorBot
  /\ verdict.rule = <<"prefix:">> \o config.bot.prefix
  /\ verdict.cleanContent = <<"x">>
  /\ message.content = config.bot.prefix \o <<" ", " ", "x", " ">>

\* C20: for a non-bot author a content that holds the bot's mention, <@id>
\* or <@!id>, anywhere gives called = TRUE, with rule 'mention' unless the
\* prefix rule, which is tested first, matches; under rule 'mention' the
\* cleanContent returned holds no mention of the bot.
C20_MentionRule ==
  (verdict.applied /\ ~message.authorBot
     /\ HasMention(message.content, client.user.id)) =>
    /\ verdict.called
    /\ ~PrefixCommand(Trim(message.content), config.bot.prefix) =>
         /\ verdict.rule = <<"mention">>
         /\ ~HasMention(verdict.cleanContent, client.user.id)


\* The configuration the process loaded asks for broadcast mentions.
BroadcastEnabled == processEnv.ALLOW_EVERYONE_MENTIONS \in {<<"true">>, <<"1">>}

\* The word stands in c as a token of its own, between blanks or the ends.
WholeToken(c, word) ==
  \E i \in 1..Len(c) :
    /\ c[i] = word
    /\ i = 1 \/ c[i - 1] = " "
    /\ i = Len(c) \/ c[i + 1] = " "

\* Neither the prefix rule nor a mention of the bot applies to message.
NoPrefixNoMention ==
  /\ ~PrefixCommand(Trim(message.content), config.bot.prefix)
  /\ ~HasMention(message.content, client.user.id)
  /\ ~message.mentionsUser

\* C21: a guild message of a non-bot author that holds @everyone or @here
\* as a whole token, with no prefix and no mention of the bot, gives
\* called = TRUE with rule 'mention' when the configuration enables
\* broadcast mentions, and called = FALSE when it does not.
C21_BroadcastAllowance ==
  (/\ verdict.applied /\ ~message.authorBot /\ message.guild # Null
   /\ NoPrefixNoMention
   /\ \/ WholeToken(Trim(message.content), "@everyone")
      \/ WholeToken(Trim(message.content), "@here")) =>
    IF BroadcastEnabled
    THEN verdict.called /\ verdict.rule = <<"mention">>
    ELSE ~verdict.called

Letters == {"x", "b", "o", "t", "y"}

\* c holds a broadcast word, and each one it holds touches a letter.
EmbeddedOnly(c) ==
  /\ \E i \in 1..Len(c) : c[i] \in {"@everyone", "@here"}
  /\ \A i \in 1..Len(c) :
       c[i] \in {"@everyone", "@here"} =>
         \/ i > 1 /\ c[i - 1] \in Letters
         \/ i < Len(c) /\ c[i + 1] \in Letters

C23_NotCalledResult ==
  (verdict.applied /\ ~verdict.called) =>
    /\ verdict.rule = Null
    /\ verdict.cleanContent = Trim(message.content)

\* config.env, as it stands, allows direct messages.
DMsEnabled == cfgFile.ALLOW_DMS \in {<<"true">>, <<"1">>}

\* The handler of event e has gone past its filters: a payload was built
\* and handed to sendToN8n.
Relayed(e) == d[e].pc \in {"reading", "inflight", "backoff", "returned", "done"}

\* C24: a direct message received while config.env does not allow direct
\* messages is never normalized or dispatched: no payload is built and no
\* HTTP request is sent for it, whatever its content.
C24_DisabledDMsDropped ==
  (message.guild = Null /\ ~DMsEnabled) =>
    /\ \A e \in Events : ~Relayed(e) /\ d[e].nreq = 0
    /\ inflight = {}

\* A direct message holding a prefix command was dropped by a process that
\* had started with direct messages allowed, config.env disallowing them.
C24_Witness ==
  /\ message.guild = Null /\ ~message.authorBot /\ ~DMsEnabled
  /\ config.bot.allowDMs
  /\ PrefixCommand(Trim(message.content), config.bot.prefix)
  /\ d[1].pc = "dropped"

OnAllowList ==
  \E i \in 1..Len(config.bot.allowedGuildIds) :
    config.bot.allowedGuildIds[i] = message.guild

\* C26: with an empty or absent allow-list every guild message passes the
\* gate, so that a non-bot message is relayed exactly when the bot was
\* called; with a non-empty allow-list a guild message is relayed only if
\* its guild id is on the list, and a message from another guild causes no
\* dispatch and no request even when it matches the prefix or mention rule.
C26_GuildAdmission ==
  (message.guild # Null /\ ~message.authorBot) =>
    \A e \in Events :
      /\ (d[e].pc # "idle" /\ (config.bot.allowedGuildIds = << >> \/ OnAllowList)) =>
           (Relayed(e) <=> isBotCalled(message, client).called)
      /\ (config.bot.allowedGuildIds # << >> /\ ~OnAllowList) =>
           ~Relayed(e) /\ d[e].nreq = 0 /\ inflight = {}

\* A message that mentions the bot, from a guild off a non-empty
\* allow-list, was dropped.
C26_Witness ==
  /\ message.guild = <<"g3">> /\ ~message.authorBot
  /\ config.bot.allowedGuildIds # << >> /\ ~OnAllowList
  /\ HasMention(message.content, client.user.id)
  /\ d[1].pc = "dropped"

\* The cleanContent the handler holds for message when it builds the
\* payload (index.js:161, 201).
DecidedCleanContent ==
  IF message.guild = Null THEN Trim(message.content)
  ELSE isBotCalled(message, client).cleanContent

\* C27: message.clean_content of every dispatched payload is the
\* cleanContent of the trigger decision for that event, the prefix or the
\* mention stripped: '!bot summarize this' under prefix '!bot' is relayed
\* with clean_content 'summarize this'.
C27_CleanContentRelayed ==
  \A e \in Events :
    Relayed(e) => d[e].payload.message.clean_content = DecidedCleanContent

\* The rule the handler, or the test endpoint, holds for message when it
\* builds the payload (index.js:160, 200; webui.js:891).
DecidedRule ==
  IF message.guild = Null THEN <<"dm">> ELSE isBotCalled(message, client).rule

\* No rule fires for message: a bot wrote it, or it is direct and direct
\* messages are off, or it is a guild message that does not call the bot.
NoRuleFired ==
  \/ message.authorBot
  \/ message.guild = Null /\ ~DMsEnabled
  \/ message.guild # Null /\ ~isBotCalled(message, client).called

\* C28: every payload passed to sendToN8n, by the handler or by the test
\* endpoint, has relay.bot_called = TRUE and relay.matched_rule equal to the
\* rule decided for its event, 'prefix:<prefix>', 'mention' or 'dm'; an
\* event for which no rule fired is never normalized nor passed on.
C28_RelayMarksRule ==
  \A e \in Events :
    /\ Relayed(e) =>
         /\ d[e].payload.relay.bot_called
         /\ d[e].payload.relay.matched_rule = DecidedRule
         /\ DecidedRule \in {<<"prefix:">> \o config.bot.prefix, <<"mention">>, <<"dm">>}
    /\ NoRuleFired => ~Relayed(e) /\ d[e].nreq = 0

\* The payload of the test endpoint's default message, built under the
\* prefix rule, is on its way to the destination.
C28_Witness ==
  /\ message = mockMessage(config.bot.prefix \o <<" ", "t", "e", "s", "t", "e">>)
  /\ d[1].pc = "inflight"
  /\ \E q \in inflight :
       /\ q.body.relay.matched_rule = <<"prefix:">> \o config.bot.prefix
       /\ q.body.relay.bot_called

\* C29: the payload formatMessageEvent returns has the seven top-level
\* keys event_type, relay, timestamp, guild, channel, message and author;
\* for a message without a guild the guild key is there with value null and
\* the channel is named 'dm'; attachments and embeds are lists, possibly
\* empty, in the order of the message.
C29_PayloadShape ==
  \A e \in Events :
    Relayed(e) =>
      LET payload == d[e].payload
      IN /\ DOMAIN payload = {"event_type", "relay", "timestamp", "guild",
                              "channel", "message", "author"}
         /\ message.guild = Null =>
              payload.guild = Null /\ payload.channel.name = <<"dm">>
         /\ message.guild # Null =>
              Len(payload.guild) = 1 /\ payload.guild[1].id = message.guild
         /\ Len(payload.message.attachments) = Len(message.attachments)
         /\ \A i \in 1..Len(message.attachments) :
              payload.message.attachments[i].id = message.attachments[i]
         /\ Len(payload.message.embeds) = Len(message.embeds)
         /\ \A i \in 1..Len(message.embeds) :
              payload.message.embeds[i].title = message.embeds[i]

\* The payload of a direct message with two attachments and no embed has
\* been built.
C29_Witness ==
  /\ message.guild = Null /\ Relayed(1)
  /\ message.attachments = <<"a1", "a2">> /\ message.embeds = << >>
  /\ d[1].payload.message.attachments = <<[id |-> "a1"], [id |-> "a2"]>>
  /\ d[1].payload.message.embeds = << >>

\* C30: an exception raised while one event is filtered, admitted or
\* normalized is caught in that event's handler: no HTTP request is sent
\* for that event; the exception does not leave the handler, so that the
\* events not delivered yet stay in line; and their handlers can run.
C30_ExceptionsContained ==
  \A e \in Events :
    d[e].pc = "failed" =>
      /\ d[e].nreq = 0
      /\ \A q \in inflight : q.ev # e
      /\ \A e2 \in Events :
           d[e2].pc = "idle" => e2 \in inbox /\ ENABLED MessageCreate(e2)

\* The handler of one event failed, and a request of a later event's
\* handler is on its way.
C30_Witness ==
  /\ d[1].pc = "failed"
  /\ d[2].pc = "inflight"
  /\ epoch[1] # NotRun
  /\ \E q \in inflight : q.ev = 2

\* The continuation the handler of event e waits for can run.
CanGoOn(e) ==
  /\ (d[e].pc = "idle" /\ e \in inbox) => ENABLED MessageCreate(e)
  /\ d[e].pc = "dmcheck" => ENABLED DmChecked(e)
  /\ d[e].pc = "reading" => ENABLED Resolve(e)
  /\ d[e].pc = "inflight" => ENABLED Respond(e)
  /\ d[e].pc = "returned" => ENABLED Collect(e)

\* The locals of the dispatch of event e that a step has left as they were.
SameDispatch(e) ==
  /\ d'[e].pc = d[e].pc /\ d'[e].attempt = d[e].attempt
  /\ d'[e].headers = d[e].headers /\ d'[e].results = d[e].results
  /\ d'[e].idx = d[e].idx /\ d'[e].nreq = d[e].nreq /\ d'[e].ret = d[e].ret

\* C31: a backoff wait suspends the dispatch of its own event only: while
\* one dispatch waits between attempts the handler of every other event can
\* take its next step, through to the end of its dispatch; and no step
\* changes the attempt count, headers or results of two dispatches, so that
\* a step of one event leaves the dispatch of every other as it was.
C31_BackoffSuspendsOwnEvent ==
  /\ [](\A e \in Events :
          d[e].pc = "backoff" => \A e2 \in Events \ {e} : CanGoOn(e2))
  /\ [][\A e \in Events : \A e2 \in Events \ {e} :
          SameDispatch(e) \/ SameDispatch(e2)]_vars

\* While the dispatch of one event waits between attempts, the dispatch of
\* a later event has run to its end with a result.
C31_Witness ==
  /\ d[1].pc = "backoff"
  /\ d[2].pc = "done" /\ Len(d[2].results) = 1

\* The dispatch of event e has sent a request and has not returned yet.
MidDispatch(e) ==
  d[e].pc \in {"inflight", "backoff", "returned"} /\ d[e].nreq > 0

\* C33: events of one channel are processed in arrival order: no request
\* of the later of two events is issued before the dispatch of the earlier
\* one has completed, so that two dispatches are never both under way with
\* requests sent, whichever of the two events came first.
C33_ArrivalOrder ==
  \A e1 \in Events : \A e2 \in Events \ {e1} :
    ~(MidDispatch(e1) /\ MidDispatch(e2))

\* The contents config.env can hold, complete, after up to k saves.
RECURSIVE CompleteContents(_)
CompleteContents(k) ==
  IF k = 0 THEN RaceFiles
  ELSE CompleteContents(k - 1)
         \cup {stringifyConfig(n, t) : <<n, t>> \in RaceFiles \X CompleteContents(k - 1)}

\* C32: a dispatch whose read of config.env overlaps a save resolves the
\* complete configuration of before the save or of after it, never a
\* partial or empty destination set, every configuration saved or replaced
\* having destinations.
C32_ReadSeesCompleteFile ==
  \A e \in Events :
    d[e].pc \notin {"idle", "reading"} =>
      /\ Targets(d[e].cfg) # << >>
      /\ \E f \in CompleteContents(MaxSaves) : d[e].cfg = getCurrentWebhooks(f)

\* C34: in every list of results sendToN8n returns the destination names
\* are pairwise distinct, so that at most one result is named 'default',
\* also when the map of named destinations has a key 'default'.
C34_DefaultReserved ==
  \A e \in Events :
    d[e].pc = "done" =>
      \A i \in 1..Len(d[e].results) : \A j \in 1..Len(d[e].results) :
        d[e].results[i].webhook = d[e].results[j].webhook => i = j

\* C35: when config.env cannot be read while a direct message is admitted,
\* areDMsAllowed gives the DM flag of the configuration loaded at start:
\* the message is relayed if that flag is on and dropped if it is off.
C35_FallbackToCachedFlag ==
  (message.guild = Null /\ ~message.authorBot /\ ~fileOk) =>
    \A e \in Events :
      d[e].pc \notin {"idle", "dmcheck"} => (Relayed(e) <=> config.bot.allowDMs)

\* C36: once a save has ended, config.env read back has, for every key the
\* request sent, the value that was sent, also for a key that had no line
\* in the file and for a key sent with the empty value.
C36_SaveRoundTrip ==
  [][\A newConfig \in Requests :
       SaveLines(newConfig) =>
         \A k \in DOMAIN newConfig : parseEnv(cfgFile')[k] = newConfig[k]]_vars

\* The dispatch of event e has resolved its destinations and secret.
Resolved(e) == d[e].pc \notin {"idle", "reading"}

\* C37: the destinations and the secret of a dispatch are resolved once,
\* when sendToN8n starts: no step changes them afterwards, a save of the
\* configuration included, and every request of the dispatch goes to a
\* destination resolved then, signed with the secret resolved then.
C37_ResolvedOnce ==
  /\ [][\A e \in Events : Resolved(e) => d'[e].cfg = d[e].cfg]_vars
  /\ [](\A q \in inflight :
          LET r == d[q.ev]
          IN /\ q.url = Targets(r.cfg)[q.idx].url
             /\ q.headers.XRelaySignature =
                  IF r.cfg.sharedSecret = Null THEN Null
                  ELSE generateSignature(q.body, r.cfg.sharedSecret))

\* A dispatch that resolved its destination before a save sends a retry
\* after it, unsigned, while config.env now has a secret and one more
\* destination.
C37_Witness ==
  /\ saves >= 1 /\ epoch[1] = 0 /\ fileOk
  /\ d[1].pc = "inflight" /\ d[1].attempt >= 1
  /\ d[1].cfg.sharedSecret = Null /\ cfgFile.RELAY_SHARED_SECRET # << >>
  /\ Len(Targets(getCurrentWebhooks(readEnv))) > Len(Targets(d[1].cfg))
  /\ \E q \in inflight : q.ev = 1 /\ q.headers.XRelaySignature = Null

\* C38: testWebhook sends one request per call and never another, whatever
\* the outcome; it returns a result for every outcome, a connection error
\* and a timeout included, with success = TRUE exactly for a response with
\* a status in [200, 300).
C38_TestWebhookOnce ==
  \A e \in Events :
    /\ d[e].pc = "testing" =>
         /\ d[e].nreq = 1 /\ Cardinality(InFlightOf(e)) = 1
         /\ ENABLED TestAnswered(e)
    /\ d[e].pc = "tested" =>
         /\ d[e].nreq = 1 /\ InFlightOf(e) = {}
         /\ d[e].ret.success <=> Is2xx(d[e].last)

\* A test call answered 500 has returned success = FALSE after its one
\* request; another, answered 200, has returned success = TRUE.
C38_Witness ==
  /\ d[1].pc = "tested" /\ d[1].last.status = 500 /\ ~d[1].ret.success
  /\ d[2].pc = "tested" /\ d[2].last.status = 200 /\ d[2].ret.success
  /\ inflight = {}


\* C39: sendToWebhook waits for a further attempt only after an error with
\* code ECONNREFUSED, ETIMEDOUT or ENOTFOUND or a response with a status >=
\* 500; after any other error, and after a response with a status below 500
\* outside [200, 300), the destination has ended at that attempt with
\* success=false and without a wait.
C39_Listed(o) ==
  \/ o.kind = "failure" /\ errorCode(o) \in {"ECONNREFUSED", "ETIMEDOUT", "ENOTFOUND"}
  \/ o.kind = "response" /\ o.status >= 500

C39_Unlisted(o) ==
  \/ o.kind = "failure" /\ ~C39_Listed(o)
  \/ o.kind = "response" /\ o.status < 500 /\ ~Is2xx(o)

C39_RetryOnlyListed ==
  \A e \in Events :
    LET r == d[e]
    IN /\ r.pc = "backoff" => C39_Listed(r.last)
       /\ (r.attempt >= 1 /\ r.pc = "inflight") => r.clock > 0
       /\ (Answered(r) /\ C39_Unlisted(r.last)) =>
            /\ Ended(r)
            /\ InFlightOf(e) = {}
            /\ ~LastResult(r).success
            /\ r.delay = 0
            /\ r.nreq = r.attempt + 1

\* The first destination ended with a 302 at its first attempt; the request
\* to the second exceeded its timeout (ECONNABORTED) and the destination
\* ended at that attempt too, without a wait.
C39_Witness ==
  \E e \in Events :
    /\ d[e].pc = "returned" /\ d[e].idx = 2 /\ d[e].results[1].status = 302
    /\ d[e].last.kind = "failure" /\ errorCode(d[e].last) = "ECONNABORTED"
    /\ d[e].nreq = 1 /\ ~d[e].ret.success /\ d[e].clock = 0


\* C40 (as claimed): for a guild message and a direct message alike, a
\* handler that got the empty list from sendToN8n ends with the 'no webhooks
\* configured' warning and not as a processing error.
C40_EmptyListWarned ==
  \A e \in Events :
    (Len(d[e].results) = 0 /\ d[e].pc \in {"warned", "failed", "logged"})
      => d[e].pc = "warned"

============================================================================
